---- MODULE Spec2Model ----
(***************************************************************************)
(* Model of the impact-metrics engine of weave-posthog-analytics:          *)
(* computeMetrics (src/lib/impact-metrics.ts) with the bot predicate of    *)
(* src/lib/github.ts.                                                      *)
(*                                                                         *)
(* Conventions                                                             *)
(*   - a login is a sequence of one-character strings;                     *)
(*   - a timestamp is a whole number of hours since an epoch; Date parsing *)
(*     turns it into milliseconds (GetTime);                               *)
(*   - raw points are held in millionths of a point (micro-points), the    *)
(*     rounded total and breakdown in hundredths (what Math.round(x*100)   *)
(*     yields before the division by 100);                                 *)
(*   - medianReviewResponseHours is held in tenths of an hour.             *)
(*                                                                         *)
(* impact-metrics.ts holds computeMetrics twice (lines 30-147 and          *)
(* 195-294).  Grouping, scoring and the final sort are the same in both;   *)
(* the first also tracks the first review per reviewer per PR and reports  *)
(* medianReviewResponseHours (operator computeMetrics, specification       *)
(* Spec), the second takes the quality lookup and reports the quality      *)
(* field (operator computeMetricsWithQuality, specification SpecQuality).  *)
(***************************************************************************)
EXTENDS Integers, Sequences, FiniteSets, TLC

VARIABLES prs, windowStart, now, pc, authorMap, reviewerFirstReview, engineers,
          qualityResult,
          callerArr, medianOut,
          insightCache, insightCalls, insightsOut,
          routePc, events, topLimit, qualityCache, qualityEnv, qualityWarning,
          routeResult,
          fetchPc, fetchedPrs, after, lastRequest, stopSeen, pages, fetchResult,
          routeFile,
          hookOptions, hookData, hookError, loading, loadingProgress, localStorage,
          hookNow, requests, effectRuns,
          insightNow, memoryCache, fileCache, timedOut, timedCalls,
          qualityMemory, qualityFile, qualityServed, qualityRequests

\* the state of a computeMetrics call
engineVars == <<prs, windowStart, now, pc, authorMap, reviewerFirstReview, engineers,
                qualityResult>>
\* the state of a median call
medianVars == <<callerArr, medianOut>>
\* the state of the insight generator and of its last call
insightVars == <<insightCache, insightCalls, insightsOut>>
\* the state of one impact request and of the quality miner's caches
routeVars == <<routePc, events, topLimit, qualityCache, qualityEnv, qualityWarning,
               routeResult>>
\* the state of a fetchMergedPRs call
fetchVars == <<fetchPc, fetchedPrs, after, lastRequest, stopSeen, pages, fetchResult>>
\* the state of the clients of the route and of GitHub
\* the state of the useImpactData hook, its requests and the browser
hookVars == <<hookOptions, hookData, hookError, loading, loadingProgress, localStorage,
              hookNow, requests, effectRuns>>
\* the clock and the two caches of getInsights, and its last timed call
timedVars == <<insightNow, memoryCache, fileCache, timedOut, timedCalls>>
\* the two caches of getQualitySignals across requests, and its last call
repoVars == <<qualityMemory, qualityFile, qualityServed, qualityRequests>>
restVars == <<fetchVars, routeFile, hookVars, timedVars, repoVars>>
\* what fetchMergedPRs, the hook and a timed getInsights call leave alone
fetchFrame == <<engineVars, medianVars, insightVars, routeVars, routeFile, hookVars,
                timedVars, repoVars>>
hookFrame == <<engineVars, medianVars, insightVars, routeVars, fetchVars, routeFile,
               timedVars, repoVars>>
timedFrame == <<engineVars, medianVars, insightVars, routeVars, fetchVars, routeFile,
                hookVars, repoVars>>
repoFrame == <<engineVars, medianVars, insightVars, routeVars, fetchVars, routeFile,
               hookVars, timedVars>>
\* what a computeMetrics call leaves alone
auxVars == <<medianVars, insightVars, routeVars, restVars>>

vars == <<engineVars, medianVars, insightVars, routeVars, restVars>>

(***************************************************************************)
(* Bounds of the model.                                                    *)
(***************************************************************************)
\* size of the input: number of PRs plus number of reviews in the list
MaxInput == 4
\* the same for the calls with a quality lookup
MaxQualityInput == 3
\* length of the array given to median
MaxMedianLen == 4
\* number of getInsights calls in a run
MaxInsightCalls == 2
\* number of PRs in the lists that vary in size
MaxSizedPrs == 3
\* number of page requests of one fetchMergedPRs call
MaxPages == 7
\* number of runs of the effect of useImpactData
MaxEffectRuns == 2
\* number of stream messages one request of the hook reads
MaxReads == 2
\* latest time of the browser clock, in hours
MaxHookNow == 2
\* number of timed getInsights calls
MaxTimedCalls == 3
\* latest time of the server clock, in units of 3 hours
MaxInsightNow == 3
\* number of impact requests that reach getQualitySignals
MaxQualityRequests == 3

(***************************************************************************)
(* Logins and the bot pattern (github.ts).                                 *)
(***************************************************************************)
Apple == <<"a", "p", "p", "l", "e">>
Bob == <<"b", "o", "b">>
Cy == <<"c", "y">>
BotUpper == <<"B", "o", "t">>
MyApps == <<"m", "y", "a", "p", "p", "s">>
Dana == <<"D", "a", "n", "a">>
Eve == <<"e", "v", "e">>
Hal == <<"h", "a", "l">>

\* the /i flag: letters compare after case folding
Lower(c) ==
  CASE c = "A" -> "a" [] c = "B" -> "b" [] c = "C" -> "c" [] c = "D" -> "d"
    [] c = "E" -> "e" [] c = "G" -> "g" [] c = "H" -> "h" [] c = "I" -> "i"
    [] c = "M" -> "m" [] c = "N" -> "n" [] c = "O" -> "o" [] c = "P" -> "p"
    [] c = "R" -> "r" [] c = "S" -> "s" [] c = "T" -> "t" [] c = "U" -> "u"
    [] c = "V" -> "v" [] c = "Y" -> "y" [] c = "L" -> "l"
    [] OTHER -> c

\* pat occurs in s at position k (1-based), ignoring case
MatchAt(s, pat, k) ==
  /\ k >= 1
  /\ k + Len(pat) - 1 <= Len(s)
  /\ \A m \in 1..Len(pat) : Lower(s[k + m - 1]) = pat[m]

\* an unanchored alternative of the pattern
Contains(s, pat) == \E k \in 1..Len(s) : MatchAt(s, pat, k)

\* an alternative anchored with $
EndsWith(s, pat) == MatchAt(s, pat, Len(s) - Len(pat) + 1)

BOT_RE(s) ==
  \/ Contains(s, <<"d", "e", "p", "e", "n", "d", "a", "b", "o", "t">>)
  \/ Contains(s, <<"g", "i", "t", "h", "u", "b", "-", "a", "c", "t", "i", "o", "n", "s">>)
  \/ Contains(s, <<"r", "e", "n", "o", "v", "a", "t", "e">>)
  \/ Contains(s, <<"b", "o", "t">>)
  \/ EndsWith(s, <<"a", "p", "p">>)
  \/ EndsWith(s, <<"a", "p", "p", "s">>)

\* the pattern without its /i flag
isBotCaseSensitive(login) ==
  LET at(pat, k) == /\ k >= 1
                    /\ k + Len(pat) - 1 <= Len(login)
                    /\ \A m \in 1..Len(pat) : login[k + m - 1] = pat[m]
      has(pat) == \E k \in 1..Len(login) : at(pat, k)
      ends(pat) == at(pat, Len(login) - Len(pat) + 1)
  IN \/ has(<<"d", "e", "p", "e", "n", "d", "a", "b", "o", "t">>)
     \/ has(<<"g", "i", "t", "h", "u", "b", "-", "a", "c", "t", "i", "o", "n", "s">>)
     \/ has(<<"r", "e", "n", "o", "v", "a", "t", "e">>)
     \/ has(<<"b", "o", "t">>)
     \/ ends(<<"a", "p", "p">>)
     \/ ends(<<"a", "p", "p", "s">>)

\* every login of the model, and no login (undefined)
Logins == { Apple, Bob, Cy, BotUpper, MyApps, Dana, Eve, Hal, <<>> }

\* BOT_RE.test of each login, evaluated once
BotTest == [l \in Logins |-> BOT_RE(l)]

isBot(login) == BotTest[login]

(***************************************************************************)
(* Input records (types PRNode, ReviewNode).                               *)
(***************************************************************************)
Null == [isNull |-> TRUE]

Author(login, avatarUrl) == [login |-> login, avatarUrl |-> avatarUrl]

\* pr.author?.login and review.author?.login; <<>> stands for undefined
LoginOf(author) == IF author = Null THEN <<>> ELSE author.login

\* pr.author?.avatarUrl ?? ""
AvatarOf(author) == IF author = Null THEN "" ELSE author.avatarUrl

\* the authors a PR of the input may carry
PrAuthors ==
  { Author(Apple, "apple.png"), Author(Bob, ""), Author(BotUpper, "bot.png"), Null }

\* size and dates of a PR of the input: a small old one, a large recent one
PrShapes ==
  { [additions |-> 10, deletions |-> 0, createdAt |-> 0, mergedAt |-> 0],
    [additions |-> 1500, deletions |-> 1000, createdAt |-> 1, mergedAt |-> 2] }

\* the PRs the input is drawn from: one human author with both shapes,
\* the other, the bot and the missing author with the small one
PrChoices ==
  { c \in PrAuthors \X PrShapes :
      c[1] = Author(Apple, "apple.png") \/ c[2].additions = 10 }

\* the reviews the input is drawn from
ReviewChoices ==
  { [author |-> [login |-> Cy], submittedAt |-> 1],
    [author |-> [login |-> Cy], submittedAt |-> 2],
    [author |-> [login |-> Cy], submittedAt |-> 3],
    [author |-> [login |-> Apple], submittedAt |-> 1],
    [author |-> [login |-> MyApps], submittedAt |-> 2],
    [author |-> Null, submittedAt |-> 2] }

\* the window starts and the wall-clock times of a call
WindowStarts == {1, 2}
NowTimes == {2}

(***************************************************************************)
(* Arithmetic helpers.                                                     *)
(***************************************************************************)
Min(a, b) == IF a < b THEN a ELSE b

\* new Date(iso).getTime(): milliseconds
GetTime(t) == t * 3600000

\* Math.log1p(n) in micro-points, for the sizes of the input
Log1p(n) ==
  CASE n = 0 -> 0
    [] n = 10 -> 2397895
    [] n = 150 -> 5017280
    [] n = 1999 -> 7600902
    [] n = 2000 -> 7601402

\* Math.round(x * 100) for x in micro-points, x >= 0: the value in hundredths
Round2(micro) == (micro + 5000) \div 10000

RECURSIVE InsertAsc(_, _)
\* insert v into the ascending sequence s
InsertAsc(s, v) ==
  IF s = <<>> THEN <<v>>
  ELSE IF v < Head(s) THEN <<v>> \o s
  ELSE <<Head(s)>> \o InsertAsc(Tail(s), v)

RECURSIVE SortAsc(_)
\* [...arr].sort((a, b) => a - b)
SortAsc(arr) ==
  IF arr = <<>> THEN <<>> ELSE InsertAsc(SortAsc(Tail(arr)), Head(arr))

\* median of a sequence of even integers (the mean of two is exact)
median(arr) ==
  IF Len(arr) = 0 THEN 0
  ELSE LET sorted == SortAsc(arr)
           mid == Len(sorted) \div 2
       IN IF Len(sorted) % 2 # 0
            THEN sorted[mid + 1]
            ELSE (sorted[mid] + sorted[mid + 1]) \div 2

\* the numbers median is called with, in halves: -1, 1, 2, 9, 10
MedianValues == {-2, 2, 4, 18, 20}

\* median with the array sorted in place: arr.sort((a, b) => a - b)
medianCallInPlace(a) == [value |-> median(a), arr |-> SortAsc(a)]

\* a call of median: the value returned and the caller's array after the
\* call; the sort works on the copy [...arr]
medianCall(a) == [value |-> median(a), arr |-> a]

(***************************************************************************)
(* Grouping (computeMetrics, first loop).                                  *)
(***************************************************************************)
EmptyMap == [x \in {} |-> 0]

\* authorMap: the keys in insertion order and the entry of each key
EmptyAuthorMap == [order |-> <<>>, data |-> EmptyMap]

\* ensure without the has() test: every call inserts a fresh entry
ensureNoCheck(am, login, avatarUrl) ==
  [order |-> Append(am.order, login),
   data |-> (login :> [avatarUrl |-> avatarUrl, prs |-> <<>>, reviewsGiven |-> 0])
              @@ am.data]

ensure(am, login, avatarUrl) ==
  LET am1 == IF login \in DOMAIN am.data
               THEN am
               ELSE [order |-> Append(am.order, login),
                     data |-> (login :> [avatarUrl |-> avatarUrl, prs |-> <<>>,
                                         reviewsGiven |-> 0]) @@ am.data]
      entry == am1.data[login]
  IN IF avatarUrl # "" /\ entry.avatarUrl = ""
       THEN [am1 EXCEPT !.data[login].avatarUrl = avatarUrl]
       ELSE am1

\* the window test with <= for <
BeforeWindowInclusive(submittedAt, ws) == GetTime(submittedAt) <= GetTime(ws)

\* no window test
BeforeWindowNever(submittedAt, ws) == FALSE

\* the window test of a review: TRUE when the review is skipped
BeforeWindow(submittedAt, ws) == GetTime(submittedAt) < GetTime(ws)

\* no self-review test
IsSelfReviewNever(reviewer, prAuthor) == FALSE

\* the self-review test: TRUE when the review is skipped
IsSelfReview(reviewer, prAuthor) == reviewer = prAuthor

\* the reviewer test: TRUE when the review is skipped
SkipReviewer(reviewer) == reviewer = <<>> \/ isBot(reviewer)

\* the PR author tested for bots only, a missing author let through
SkipPrBotOnly(prAuthor) == prAuthor # <<>> /\ isBot(prAuthor)

\* the author test: TRUE when the PR is skipped with all its reviews
SkipPr(prAuthor) == prAuthor = <<>> \/ isBot(prAuthor)

\* the entry of the first counted review in input order kept, never lowered
TrackFirstReviewKeepFirst(rfr, reviewer, pr, review) ==
  LET byPr == IF reviewer \in DOMAIN rfr THEN rfr[reviewer] ELSE EmptyMap
      fresh == [prCreatedAt |-> pr.createdAt, minSubmittedAt |-> review.submittedAt]
  IN IF pr.url \notin DOMAIN byPr
       THEN (reviewer :> ((pr.url :> fresh) @@ byPr)) @@ rfr
       ELSE (reviewer :> byPr) @@ rfr

\* reviewerFirstReview after one counted review
TrackFirstReview(rfr, reviewer, pr, review) ==
  LET byPr == IF reviewer \in DOMAIN rfr THEN rfr[reviewer] ELSE EmptyMap
      fresh == [prCreatedAt |-> pr.createdAt, minSubmittedAt |-> review.submittedAt]
  IN IF pr.url \notin DOMAIN byPr \/ review.submittedAt < byPr[pr.url].minSubmittedAt
       THEN (reviewer :> ((pr.url :> fresh) @@ byPr)) @@ rfr
       ELSE (reviewer :> byPr) @@ rfr

\* the inner loop body with ensure(reviewer) moved above the window test
ProcessReviewEnsureFirst(st, pr, prAuthor, review, ws) ==
  LET reviewer == LoginOf(review.author)
  IN IF SkipReviewer(reviewer) THEN st
     ELSE IF IsSelfReview(reviewer, prAuthor) THEN st
     ELSE LET am1 == ensure(st.authorMap, reviewer, "")
          IN IF BeforeWindow(review.submittedAt, ws)
               THEN [st EXCEPT !.authorMap = am1]
               ELSE [authorMap |-> [am1 EXCEPT !.data[reviewer].reviewsGiven = @ + 1],
                     reviewerFirstReview |->
                       TrackFirstReview(st.reviewerFirstReview, reviewer, pr, review)]

\* the inner loop body with the first-review tracking moved above the window test
ProcessReviewTrackFirst(st, pr, prAuthor, review, ws) ==
  LET reviewer == LoginOf(review.author)
  IN IF SkipReviewer(reviewer) THEN st
     ELSE IF IsSelfReview(reviewer, prAuthor) THEN st
     ELSE LET rfr1 == TrackFirstReview(st.reviewerFirstReview, reviewer, pr, review)
          IN IF BeforeWindow(review.submittedAt, ws)
               THEN [st EXCEPT !.reviewerFirstReview = rfr1]
               ELSE LET am1 == ensure(st.authorMap, reviewer, "")
                    IN [authorMap |-> [am1 EXCEPT !.data[reviewer].reviewsGiven = @ + 1],
                        reviewerFirstReview |-> rfr1]

\* the body of the inner loop for one review
ProcessReview(st, pr, prAuthor, review, ws) ==
  LET reviewer == LoginOf(review.author)
  IN IF SkipReviewer(reviewer) THEN st
     ELSE IF IsSelfReview(reviewer, prAuthor) THEN st
     ELSE IF BeforeWindow(review.submittedAt, ws) THEN st
     ELSE LET am1 == ensure(st.authorMap, reviewer, "")
          IN [authorMap |-> [am1 EXCEPT !.data[reviewer].reviewsGiven = @ + 1],
              reviewerFirstReview |->
                TrackFirstReview(st.reviewerFirstReview, reviewer, pr, review)]

RECURSIVE ProcessReviews(_, _, _, _, _)
\* for (const review of pr.reviews.nodes), from the k-th review on
ProcessReviews(st, pr, prAuthor, k, ws) ==
  IF k > Len(pr.reviews) THEN st
  ELSE ProcessReviews(ProcessReview(st, pr, prAuthor, pr.reviews[k], ws),
                      pr, prAuthor, k + 1, ws)

\* the outer loop body with the review window applied to the PR as well
ProcessPrWindowed(st, pr, ws) ==
  LET prAuthor == LoginOf(pr.author)
  IN IF SkipPr(prAuthor) \/ BeforeWindow(pr.mergedAt, ws) THEN st
     ELSE LET am1 == ensure(st.authorMap, prAuthor, AvatarOf(pr.author))
              am2 == [am1 EXCEPT !.data[prAuthor].prs = Append(@, pr)]
          IN ProcessReviews([st EXCEPT !.authorMap = am2], pr, prAuthor, 1, ws)

\* the body of the outer loop for one PR
ProcessPr(st, pr, ws) ==
  LET prAuthor == LoginOf(pr.author)
  IN IF SkipPr(prAuthor) THEN st
     ELSE LET am1 == ensure(st.authorMap, prAuthor, AvatarOf(pr.author))
              am2 == [am1 EXCEPT !.data[prAuthor].prs = Append(@, pr)]
          IN ProcessReviews([st EXCEPT !.authorMap = am2], pr, prAuthor, 1, ws)

RECURSIVE Group(_, _, _, _)
\* for (const pr of prs), from the i-th PR on
Group(st, list, i, ws) ==
  IF i > Len(list) THEN st
  ELSE Group(ProcessPr(st, list[i], ws), list, i + 1, ws)

(***************************************************************************)
(* Per-login reduction (computeMetrics, second loop).                      *)
(***************************************************************************)
RECURSIVE SumSeq(_)
SumSeq(s) == IF s = <<>> THEN 0 ELSE Head(s) + SumSeq(Tail(s))

\* Math.log1p(Math.min(pr.additions + pr.deletions, 2000)), micro-points
\* the size score without the cap (ln 2501 and ln 3001 looked up)
SizeScoreUncapped(pr) ==
  LET linesChanged == pr.additions + pr.deletions
  IN IF linesChanged = 2500 THEN 7824446
     ELSE IF linesChanged = 3000 THEN 8006701
     ELSE Log1p(linesChanged)

SizeScore(pr) == Log1p(Min(pr.additions + pr.deletions, 2000))

\* data.prs.reduce(...), micro-points
codeSizeScore(list) == SumSeq([k \in 1..Len(list) |-> SizeScore(list[k])])

\* merged_prs * 3 + codeSizeScore, micro-points
PrPoints(list) == Len(list) * 3000000 + codeSizeScore(list)

\* data.reviewsGiven * 1.2, micro-points
ReviewPoints(reviewsGiven) == reviewsGiven * 1200000

\* pr_points + review_points, micro-points
RawTotal(data) == PrPoints(data.prs) + ReviewPoints(data.reviewsGiven)

\* the total truncated instead of rounded
RoundedTotalTrunc(data) == RawTotal(data) \div 10000

\* Math.round(total * 100): the reported total in hundredths
RoundedTotal(data) == Round2(RawTotal(data))

RECURSIVE InsertByMergedAt(_, _)
\* stable insertion into a sequence ordered by mergedAt descending
InsertByMergedAt(s, pr) ==
  IF s = <<>> THEN <<pr>>
  ELSE IF GetTime(pr.mergedAt) > GetTime(Head(s).mergedAt) THEN <<pr>> \o s
  ELSE <<Head(s)>> \o InsertByMergedAt(Tail(s), pr)

RECURSIVE SortByMergedAt(_, _)
\* [...data.prs].sort((a, b) => b.mergedAt - a.mergedAt), elements taken in order
SortByMergedAt(acc, list) ==
  IF list = <<>> THEN acc
  ELSE SortByMergedAt(InsertByMergedAt(acc, Head(list)), Tail(list))

TopPR(pr) ==
  [title |-> pr.title, url |-> pr.url, mergedAt |-> pr.mergedAt,
   additions |-> pr.additions, deletions |-> pr.deletions]

\* the first three PRs in input order, without the sort
topPRsUnsorted(list) == [k \in 1..Min(3, Len(list)) |-> TopPR(list[k])]

topPRs(list) ==
  LET sorted == SortByMergedAt(<<>>, list)
  IN [k \in 1..Min(3, Len(sorted)) |-> TopPR(sorted[k])]

RECURSIVE SetToSeq(_)
SetToSeq(S) ==
  IF S = {} THEN <<>>
  ELSE LET x == CHOOSE y \in S : \A z \in S : y <= z
       IN <<x>> \o SetToSeq(S \ {x})

\* the response-time samples of a login, in tenths of an hour
responseTimesHours(rfr, login) ==
  IF login \in DOMAIN rfr
    THEN LET byPr == rfr[login]
             urls == SetToSeq(DOMAIN byPr)
         IN [k \in 1..Len(urls) |->
               ((GetTime(byPr[urls[k]].minSubmittedAt)
                 - GetTime(byPr[urls[k]].prCreatedAt)) * 10) \div 3600000]
    ELSE <<>>

\* the profile pushed for one key of authorMap
Profile(login, data, rfr) ==
  LET samples == responseTimesHours(rfr, login)
  IN [login |-> login,
      avatarUrl |-> data.avatarUrl,
      total |-> RoundedTotal(data),
      breakdown |-> [pr_points |-> Round2(PrPoints(data.prs)),
                     review_points |-> Round2(ReviewPoints(data.reviewsGiven))],
      merged_prs |-> Len(data.prs),
      reviews_given |-> data.reviewsGiven,
      \* in 1/48 of a day
      medianMergeDays |->
        median([k \in 1..Len(data.prs) |->
                  (GetTime(data.prs[k].mergedAt) - GetTime(data.prs[k].createdAt))
                    \div 1800000]),
      \* Math.round of the median, which is a whole or a half
      medianPrSize |->
        (median([k \in 1..Len(data.prs) |->
                   2 * (data.prs[k].additions + data.prs[k].deletions)]) + 1) \div 2,
      medianReviewResponseHours |->
        IF Len(samples) > 0 THEN [isNull |-> FALSE, tenths |-> median(samples)]
        ELSE Null,
      topPRs |-> topPRs(data.prs)]

\* for (const [login, data] of authorMap) engineers.push(...)
Reduce(am, rfr) ==
  [k \in 1..Len(am.order) |-> Profile(am.order[k], am.data[am.order[k]], rfr)]

(***************************************************************************)
(* The final sort (computeMetrics, engineers.sort).                        *)
(***************************************************************************)
RECURSIVE InsertByTotal(_, _)
\* stable insertion into a sequence ordered by total descending
InsertByTotal(s, e) ==
  IF s = <<>> THEN <<e>>
  ELSE IF e.total > Head(s).total THEN <<e>> \o s
  ELSE <<Head(s)>> \o InsertByTotal(Tail(s), e)

RECURSIVE SortByTotal(_, _)
\* engineers.sort((a, b) => b.total - a.total): Array.prototype.sort is stable
SortByTotal(acc, list) ==
  IF list = <<>> THEN acc
  ELSE SortByTotal(InsertByTotal(acc, Head(list)), Tail(list))

\* no final sort
sortEngineersNone(list) == list

RECURSIVE InsertByTotalTiesFirst(_, _)
InsertByTotalTiesFirst(s, e) ==
  IF s = <<>> THEN <<e>>
  ELSE IF e.total >= Head(s).total THEN <<e>> \o s
  ELSE <<Head(s)>> \o InsertByTotalTiesFirst(Tail(s), e)

RECURSIVE SortByTotalTiesFirst(_, _)
SortByTotalTiesFirst(acc, list) ==
  IF list = <<>> THEN acc
  ELSE SortByTotalTiesFirst(InsertByTotalTiesFirst(acc, Head(list)), Tail(list))

\* a final sort that is not stable: equal totals come out in reverse order
sortEngineersUnstable(list) == SortByTotalTiesFirst(<<>>, list)

\* engineers.sort(...) applied to the pushed profiles
sortEngineers(list) == SortByTotal(<<>>, list)

\* computeMetrics(prs, windowStart): the accumulators and the returned list
computeMetrics(list, ws) ==
  LET st == Group([authorMap |-> EmptyAuthorMap, reviewerFirstReview |-> EmptyMap],
                  list, 1, ws)
  IN [authorMap |-> st.authorMap,
      reviewerFirstReview |-> st.reviewerFirstReview,
      engineers |-> sortEngineers(Reduce(st.authorMap, st.reviewerFirstReview))]


(***************************************************************************)
(* Quality signals (computeQualityForEngineer and the second               *)
(* computeMetrics, lines 173-294).                                         *)
(***************************************************************************)
\* String.prototype.toLowerCase
toLowerCase(str) == [k \in 1..Len(str) |-> Lower(str[k])]

\* merge-commit hashes of the input and keys of the lookup
HashAb1 == <<"a", "b", "1">>
HashAB1 == <<"A", "B", "1">>
HashDe2 == <<"d", "e", "2">>
HashCe3 == <<"c", "e", "3">>

\* the lookups a call may be given: none, one with lower-case keys (touched,
\* not touched, unknown), one whose only key carries upper-case letters
QualityChoices ==
  { Null,
    [touchedTests |-> (HashAb1 :> "true") @@ (HashDe2 :> "false") @@ (HashCe3 :> "null")],
    [touchedTests |-> (HashAB1 :> "true")] }

\* the PRs a call with a lookup is drawn from: <<author, mergeCommit>>
QualityPrChoices ==
  ({ Author(Apple, "apple.png") }
     \X { Null, [oid |-> HashAb1], [oid |-> HashAB1], [oid |-> HashDe2], [oid |-> HashCe3] })
  \cup { <<Author(Bob, ""), [oid |-> HashAb1]>>, <<Null, [oid |-> HashAb1]>> }

\* the reviews a call with a lookup is drawn from
QualityReviewChoices ==
  { [author |-> [login |-> Cy], submittedAt |-> 2],
    [author |-> [login |-> Apple], submittedAt |-> 2] }

\* pr.mergeCommit?.oid without the lower-casing
ShaOfExact(pr) == IF pr.mergeCommit = Null THEN <<>> ELSE pr.mergeCommit.oid

\* pr.mergeCommit?.oid?.toLowerCase(); <<>> stands for undefined
ShaOf(pr) == IF pr.mergeCommit = Null THEN <<>> ELSE toLowerCase(pr.mergeCommit.oid)

\* quality.touchedTests[sha]
Touched(quality, sha) ==
  IF sha \in DOMAIN quality.touchedTests THEN quality.touchedTests[sha] ELSE "undefined"

\* every looked-up value taken as known
IsKnownAlways(touched) == TRUE

\* touched === true || touched === false
IsKnown(touched) == touched = "true" \/ touched = "false"

RECURSIVE QualityLoop(_, _, _, _)
\* for (const pr of prs), from the k-th PR on; acc holds the two counters
QualityLoop(acc, list, k, quality) ==
  IF k > Len(list) THEN acc
  ELSE LET sha == ShaOf(list[k])
           touched == Touched(quality, sha)
       IN IF sha = <<>> THEN QualityLoop(acc, list, k + 1, quality)
          ELSE IF IsKnown(touched)
            THEN QualityLoop([prsWithTests |-> acc.prsWithTests
                                                 + (IF touched = "true" THEN 1 ELSE 0),
                              totalFound |-> acc.totalFound + 1],
                             list, k + 1, quality)
          ELSE QualityLoop(acc, list, k + 1, quality)

\* test_touch_ratio in hundredths: Math.round((prsWithTests / totalFound) * 100)
computeQualityForEngineer(list, quality) ==
  LET c == QualityLoop([prsWithTests |-> 0, totalFound |-> 0], list, 1, quality)
  IN [prs_with_tests |-> c.prsWithTests,
      total_prs_with_merge_commit_found |-> c.totalFound,
      test_touch_ratio |->
        IF c.totalFound > 0
          THEN [isNull |-> FALSE,
                hundredths |-> (200 * c.prsWithTests + c.totalFound) \div (2 * c.totalFound)]
          ELSE Null]

\* the quality field computed also without a lookup, from an empty one
QualityFieldAlways(list, qr) ==
  computeQualityForEngineer(list, IF qr = Null THEN [touchedTests |-> EmptyMap] ELSE qr)

\* qualityResult ? computeQualityForEngineer(data.prs, qualityResult) : null
QualityField(list, qr) ==
  IF qr # Null THEN computeQualityForEngineer(list, qr) ELSE Null

\* the profile pushed for one key of authorMap (second computeMetrics)
ProfileWithQuality(login, data, qr) ==
  [login |-> login,
   avatarUrl |-> data.avatarUrl,
   total |-> RoundedTotal(data),
   breakdown |-> [pr_points |-> Round2(PrPoints(data.prs)),
                  review_points |-> Round2(ReviewPoints(data.reviewsGiven))],
   merged_prs |-> Len(data.prs),
   reviews_given |-> data.reviewsGiven,
   medianMergeDays |->
     median([k \in 1..Len(data.prs) |->
               (GetTime(data.prs[k].mergedAt) - GetTime(data.prs[k].createdAt))
                 \div 1800000]),
   medianPrSize |->
     (median([k \in 1..Len(data.prs) |->
                2 * (data.prs[k].additions + data.prs[k].deletions)]) + 1) \div 2,
   quality |-> QualityField(data.prs, qr),
   topPRs |-> topPRs(data.prs)]

\* computeMetrics(prs, windowStart, qualityResult): this variant keeps no
\* first-review map, which does not act on authorMap
computeMetricsWithQuality(list, ws, qr) ==
  LET st == Group([authorMap |-> EmptyAuthorMap, reviewerFirstReview |-> EmptyMap],
                  list, 1, ws)
      am == st.authorMap
  IN [authorMap |-> am,
      engineers |->
        sortEngineers([k \in 1..Len(am.order) |->
                         ProfileWithQuality(am.order[k], am.data[am.order[k]], qr)])]


(***************************************************************************)
(* Insights (llm-insights.ts, chunked getInsights, lines 244-365).         *)
(* JSON values are records tagged with their typeof; a string is held by   *)
(* its length, a number in tenths.                                         *)
(***************************************************************************)
Undefined == [t |-> "undefined"]
JNull == [t |-> "null"]
JStr(n) == [t |-> "string", length |-> n]
JNum(x) == [t |-> "number", infinite |-> FALSE, tenths |-> x]
\* what JSON.parse makes of a literal beyond the double range, e.g. 1e999
JInfinity == [t |-> "number", infinite |-> TRUE, tenths |-> 0]
JObj(f) == [t |-> "object", fields |-> f]

\* o[key]
Field(o, key) == IF key \in DOMAIN o.fields THEN o.fields[key] ELSE Undefined

\* a ?? b
Coalesce(a, b) == IF a.t \in {"undefined", "null"} THEN b ELSE a

PR_TYPE_KEYS == <<"bugfix", "feature", "refactor", "infra", "docs", "test", "other">>

CHUNK_SIZE == 5

\* Math.round of a non-negative number
MathRound(v) == IF v.infinite THEN v ELSE JNum(10 * ((v.tenths + 5) \div 10))

\* typeof v === "number" && v >= 0 ? Math.round(v) : 0
CountOf(v) ==
  IF v.t = "number" /\ (v.infinite \/ v.tenths >= 0) THEN MathRound(v) ELSE JNum(0)

\* typeof summary !== "string" || summary.length > 280
SummaryRejected(summary) == summary.t # "string" \/ summary.length > 280

\* validateInsight(raw): Null or {summary, prTypes}
validateInsight(raw) ==
  IF raw.t # "object" THEN Null
  ELSE LET summary == Field(raw, "summary")
           pt == Coalesce(Field(raw, "pr_types"), Field(raw, "prTypes"))
       IN IF SummaryRejected(summary) THEN Null
          ELSE [isNull |-> FALSE,
                summary |-> JStr(Min(summary.length, 240)),
                prTypes |->
                  IF pt.t = "object"
                    THEN [k \in { PR_TYPE_KEYS[i] : i \in 1..Len(PR_TYPE_KEYS) } |->
                            CountOf(Field(pt, k))]
                    ELSE EmptyMap]


\* the request: topEngineers, by login
TopChoices == { <<>>, <<Bob>>, <<Dana>>, <<Bob, Dana>> }

\* pr_types objects of a reply
PtMixed ==
  JObj(("bugfix" :> JNum(20)) @@ ("feature" :> JNum(15)) @@ ("refactor" :> JNum(-10))
       @@ ("infra" :> JStr(1)) @@ ("extra" :> JNum(40)))
PtHuge == JObj("bugfix" :> JInfinity)

\* what a reply may hold under an engineer's key
RawChoices ==
  { Undefined,
    JStr(3),
    JObj("summary" :> JNum(50)),
    JObj(("summary" :> JStr(281)) @@ ("pr_types" :> PtMixed)),
    JObj(("summary" :> JStr(260)) @@ ("pr_types" :> PtMixed)),
    JObj("summary" :> JStr(10)),
    JObj(("summary" :> JStr(10)) @@ ("pr_types" :> JStr(3))),
    JObj(("summary" :> JStr(10)) @@ ("prTypes" :> PtMixed)),
    JObj(("summary" :> JStr(10)) @@ ("pr_types" :> PtHuge)) }

\* the outcomes of one chat completion: the call throws, the content is
\* empty, is not JSON, or parses to null or to an object keyed by login
ReplyChoices ==
  { [kind |-> "throw"], [kind |-> "empty"], [kind |-> "invalid"],
    [kind |-> "parsed", value |-> JNull] }
  \cup { [kind |-> "parsed", value |-> JObj(Bob :> raw)] : raw \in RawChoices }
  \cup { [kind |-> "parsed", value |-> JObj((Bob :> JObj("summary" :> JStr(260))) @@ (key :> raw))] :
           key \in {Dana, toLowerCase(Dana)}, raw \in RawChoices }

RECURSIVE ValidateAll(_, _, _, _)
\* for (const e of engineers), from the k-th on
ValidateAll(result, engs, k, parsed) ==
  IF k > Len(engs) THEN result
  ELSE LET raw == Coalesce(Field(parsed, engs[k]), Field(parsed, toLowerCase(engs[k])))
           val == validateInsight(raw)
       IN ValidateAll(IF val # Null THEN (engs[k] :> val) @@ result ELSE result,
                      engs, k + 1, parsed)

\* fetchFromOpenAI(engineers, apiKey) under one outcome of the completion
fetchFromOpenAI(engs, reply) ==
  IF reply.kind = "throw" THEN [threw |-> TRUE, result |-> EmptyMap]
  ELSE IF reply.kind \in {"empty", "invalid"} THEN [threw |-> FALSE, result |-> EmptyMap]
  \* parsed[e.login] on null is a TypeError
  ELSE IF reply.value.t # "object" THEN [threw |-> TRUE, result |-> EmptyMap]
  ELSE [threw |-> FALSE, result |-> ValidateAll(EmptyMap, engs, 1, reply.value)]

\* the number of chunks of a request
NumChunks(top) == (Len(top) + CHUNK_SIZE - 1) \div CHUNK_SIZE

\* topEngineers.slice(i, i + CHUNK_SIZE) for the c-th chunk
Chunk(top, c) == SubSeq(top, (c - 1) * CHUNK_SIZE + 1, Min(c * CHUNK_SIZE, Len(top)))

\* a filter that keeps the whole chunk
MissingAll(chunk, result) == chunk

\* chunk.filter((e) => !result[e.login] && !result[e.login.toLowerCase()])
Missing(chunk, result) ==
  LET keep == { k \in 1..Len(chunk) :
                  chunk[k] \notin DOMAIN result /\ toLowerCase(chunk[k]) \notin DOMAIN result }
  IN [i \in 1..Cardinality(keep) |->
        chunk[CHOOSE k \in keep : Cardinality({ j \in keep : j < k }) = i - 1]]

RECURSIVE FetchChunks(_, _, _, _)
\* for (const chunk of chunks), from the c-th on
FetchChunks(result, top, c, replies) ==
  IF c > NumChunks(top) THEN [threw |-> FALSE, result |-> result]
  ELSE LET missing == Missing(Chunk(top, c), result)
       IN IF Len(missing) = 0 THEN FetchChunks(result, top, c + 1, replies)
          ELSE LET fetched == fetchFromOpenAI(missing, replies[c])
               IN IF fetched.threw THEN [threw |-> TRUE, result |-> result]
                  ELSE FetchChunks(fetched.result @@ result, top, c + 1, replies)

\* getInsights(topEngineers, since, repo): the value returned and the cache
\* entry after the call.  cache is the unexpired entry for (since, repo),
\* Null when there is none.
getInsights(top, apiKey, cache, replies) ==
  IF Len(top) = 0 \/ ~apiKey THEN [ret |-> Null, cache |-> cache]
  ELSE LET start == IF cache # Null THEN cache.result ELSE EmptyMap
           out == FetchChunks(start, top, 1, replies)
           requestedLogins == { toLowerCase(top[k]) : k \in 1..Len(top) }
       IN IF out.threw \/ DOMAIN out.result = {} THEN [ret |-> Null, cache |-> cache]
          ELSE [ret |-> [isNull |-> FALSE,
                         result |-> [l \in { x \in DOMAIN out.result :
                                               toLowerCase(x) \in requestedLogins } |->
                                       out.result[l]]],
                cache |-> [isNull |-> FALSE, result |-> out.result]]


(***************************************************************************)
(* Quality mining (quality-mining.ts, getQualitySignals).  A cache entry   *)
(* of the model is one that is valid for the request's since date;         *)
(* an expired or foreign entry reads as none.                              *)
(***************************************************************************)
\* the lookup the miner or the artifact delivers
MinedResult ==
  [isNull |-> FALSE,
   touchedTests |-> (HashAb1 :> "true") @@ (HashDe2 :> "false") @@ (HashCe3 :> "null")]

\* the caches a request may find
QualityCacheChoices ==
  { [memory |-> Null, file |-> Null],
    [memory |-> MinedResult, file |-> MinedResult],
    [memory |-> Null, file |-> MinedResult] }

\* fetchArtifact: HTTP status not ok, touchedTests missing, fetch or json()
\* throwing, or a valid artifact
ArtifactOutcomes == {"http", "invalid", "throw", "ok"}

\* runMiner: script not found, spawn error, exit code, error field, output
\* that is not JSON, or a result
MinerOutcomes == {"noscript", "spawn", "exit", "errorfield", "garbage", "ok"}

\* what a request meets outside the process: QUALITY_ARTIFACT_URL and the
\* artifact, the clone on disk and git, the miner, the cache file being
\* writable
QualityEnvChoices ==
  { [artifactUrl |-> TRUE, artifact |-> a, cloned |-> FALSE, clone |-> TRUE,
     miner |-> "ok", diskOk |-> TRUE] : a \in ArtifactOutcomes }
  \cup { [artifactUrl |-> FALSE, artifact |-> "ok", cloned |-> c[1], clone |-> c[2],
          miner |-> "ok", diskOk |-> c[3]] :
           c \in {<<TRUE, TRUE, TRUE>>, <<FALSE, TRUE, FALSE>>, <<FALSE, FALSE, TRUE>>} }
  \cup { [artifactUrl |-> FALSE, artifact |-> "ok", cloned |-> TRUE, clone |-> TRUE,
          miner |-> m, diskOk |-> TRUE] : m \in MinerOutcomes }

\* the clone without its try/catch
ensureRepoClonedNoCatch(env) ==
  IF env.cloned \/ env.clone THEN [threw |-> FALSE, ok |-> TRUE]
  ELSE [threw |-> TRUE, ok |-> FALSE]

\* ensureRepoCloned(sinceDate): the failure of git is caught
ensureRepoCloned(env) ==
  IF env.cloned \/ env.clone THEN [threw |-> FALSE, ok |-> TRUE]
  ELSE [threw |-> FALSE, ok |-> FALSE]

\* runMiner(repoPath, sinceDate, mergeShas)
runMiner(env) ==
  IF env.miner = "ok" THEN [ok |-> TRUE, result |-> MinedResult]
  ELSE [ok |-> FALSE, result |-> Null]

\* fetchArtifact(url)
fetchArtifact(env) ==
  IF env.artifact = "ok" THEN [ok |-> TRUE, result |-> MinedResult]
  ELSE [ok |-> FALSE, result |-> Null]

\* memoryCache = {...}; saveFileCache(since, result)
SaveCaches(cache, env, result) ==
  [memory |-> result, file |-> IF env.diskOk THEN result ELSE cache.file]

\* getQualitySignals(mergeShas, since): result, warning and the caches
\* after the call
getQualitySignals(mergeShas, cache, env) ==
  IF cache.memory # Null
    THEN [threw |-> FALSE, result |-> cache.memory, warning |-> FALSE, cache |-> cache]
  ELSE IF cache.file # Null
    THEN [threw |-> FALSE, result |-> cache.file, warning |-> FALSE,
          cache |-> [cache EXCEPT !.memory = cache.file]]
  ELSE IF env.artifactUrl
    THEN LET artifact == fetchArtifact(env)
         IN IF artifact.ok
              THEN [threw |-> FALSE, result |-> artifact.result, warning |-> FALSE,
                    cache |-> SaveCaches(cache, env, artifact.result)]
              ELSE [threw |-> FALSE, result |-> Null, warning |-> TRUE, cache |-> cache]
  ELSE IF { mergeShas[k] : k \in 1..Len(mergeShas) } = {}
    THEN [threw |-> FALSE, result |-> [isNull |-> FALSE, touchedTests |-> EmptyMap],
          warning |-> FALSE, cache |-> cache]
  ELSE LET clone == ensureRepoCloned(env)
           miner == runMiner(env)
       IN IF clone.threw
            THEN [threw |-> TRUE, result |-> Null, warning |-> FALSE, cache |-> cache]
          ELSE IF ~clone.ok
            THEN [threw |-> FALSE, result |-> Null, warning |-> TRUE, cache |-> cache]
          ELSE IF ~miner.ok
            THEN [threw |-> FALSE, result |-> Null, warning |-> TRUE, cache |-> cache]
          ELSE [threw |-> FALSE, result |-> miner.result, warning |-> FALSE,
                cache |-> SaveCaches(cache, env, miner.result)]

(***************************************************************************)
(* The impact route (streaming GET).                                       *)
(***************************************************************************)
\* a merged PR of the fetched list
RoutePr(url, login, mergeCommit, reviews) ==
  [title |-> url, url |-> url, createdAt |-> 0, mergedAt |-> 0,
   mergeCommit |-> mergeCommit, additions |-> 10, deletions |-> 0,
   author |-> Author(login, ""), reviews |-> reviews]

\* the lists fetchMergedPRs may return: none, one PR, two authors and a
\* reviewer, six authors
RoutePrLists ==
  { <<>>,
    <<RoutePr(1, Bob, [oid |-> HashAb1], <<>>)>>,
    <<RoutePr(1, Dana, Null, <<>>)>>,
    <<RoutePr(1, Bob, [oid |-> HashAb1], <<[author |-> [login |-> Cy], submittedAt |-> 2]>>),
      RoutePr(2, Dana, [oid |-> HashDe2], <<>>)>>,
    <<RoutePr(1, Apple, [oid |-> HashAb1], <<>>), RoutePr(2, Bob, [oid |-> HashAb1], <<>>),
      RoutePr(3, Cy, [oid |-> HashCe3], <<>>), RoutePr(4, Dana, [oid |-> HashDe2], <<>>),
      RoutePr(5, Eve, Null, <<>>), RoutePr(6, Hal, Null, <<>>)>> }

\* topParam === "10" ? 10 : 5
TopLimits == {5, 10}

RECURSIVE MergeShas(_, _)
\* the hashes of the PRs of known human authors, from the k-th PR on
MergeShas(list, k) ==
  IF k > Len(list) THEN <<>>
  ELSE IF /\ LoginOf(list[k].author) # <<>>
          /\ ~isBot(LoginOf(list[k].author))
          /\ list[k].mergeCommit # Null
    THEN <<list[k].mergeCommit.oid>> \o MergeShas(list, k + 1)
  ELSE MergeShas(list, k + 1)

\* all.slice(0, topLimit)
TopSlice(all, limit) == SubSeq(all, 1, Min(limit, Len(all)))

\* one line of the stream
Event(type, id) == [type |-> type, id |-> id]

\* the lines route.ts emits when fetchMergedPRs has returned, with the
\* partial line ahead of the metrics step_done
PartialEventsEarly ==
  <<Event("step_done", "fetch_prs"), Event("step_start", "metrics"),
    Event("partial", ""), Event("step_done", "metrics"),
    Event("step_start", "insights")>>

\* the lines route.ts emits from the return of fetchMergedPRs to the await
\* of getInsights
PartialEvents ==
  <<Event("step_done", "fetch_prs"), Event("step_start", "metrics"),
    Event("step_done", "metrics"), Event("partial", ""),
    Event("step_start", "insights")>>

\* a catch block that emits nothing
catchSilent(evs) == evs

\* catch (err): the error line
catchError(evs) == Append(evs, Event("error", ""))

(***************************************************************************)
(* State machine: the caller builds the PR list, then calls computeMetrics.*)
(***************************************************************************)
TotalReviews(list) == SumSeq([k \in 1..Len(list) |-> Len(list[k].reviews)])

(***************************************************************************)
(* fetchMergedPRs (github.ts).  A node is held by its mergedAt.            *)
(***************************************************************************)
MAX_PRS == 300
PAGE_SIZE == 50

\* a merged PR, and a node without mergedAt
MergedNode == [mergedAt |-> [isNull |-> FALSE, time |-> 1]]
UnmergedNode == [mergedAt |-> [isNull |-> TRUE]]

\* a page of k nodes of which the first u have no mergedAt
PageOf(k, u) == [i \in 1..k |-> IF i <= u THEN UnmergedNode ELSE MergedNode]

\* the answers to a request for `first` items: none, as many as asked or
\* one more, with or without an unmerged node, with any pageInfo
PageResponses(first) ==
  { [nodes |-> PageOf(k, u), hasNextPage |-> h, endCursor |-> c] :
      k \in {0, first, first + 1}, u \in {0, 1}, h \in BOOLEAN,
      c \in { [isNull |-> TRUE], [isNull |-> FALSE, cursor |-> 1] } }

\* the page taken whole
filterNone(nodes) == nodes

\* data.search.nodes.filter((n) => n.mergedAt)
filterMerged(nodes) == SelectSeq(nodes, LAMBDA n : ~n.mergedAt.isNull)

\* !hasNextPage || !endCursor
StopPaging(resp) == ~resp.hasNextPage \/ resp.endCursor.isNull

\* Math.min(PAGE_SIZE, MAX_PRS - prs.length)
FirstOf(list) == Min(PAGE_SIZE, MAX_PRS - Len(list))

\* prs.slice(0, MAX_PRS)
SliceMax(list) == SubSeq(list, 1, Min(MAX_PRS, Len(list)))

\* no fetchMergedPRs call
FetchIdle ==
  /\ fetchPc = "idle"
  /\ fetchedPrs = <<>>
  /\ after = [isNull |-> TRUE]
  /\ lastRequest = [isNull |-> TRUE]
  /\ stopSeen = FALSE
  /\ pages = 0
  /\ fetchResult = [isNull |-> TRUE]

\* the two files that hold the streaming GET handler
RouteFiles == {"part_003", "route.ts"}

(***************************************************************************)
(* useImpactData (part_007).  Times are in hours.                          *)
(***************************************************************************)
\* CACHE_TTL_MS of the hook: 1 hour
HookCacheTtl == 1

\* the options the component passes: (repo, top); a change of token runs
\* the effect again with the same (repo, top)
HookOptions == { [repo |-> "a", top |-> 5], [repo |-> "a", top |-> 10],
                 [repo |-> "", top |-> 5] }

\* getCacheKey(repo, top)
getCacheKey(repo, top) == <<repo, top>>
CacheKeys == { getCacheKey(o.repo, o.top) : o \in HookOptions }

\* a payload of the stream of request i
Payload(i, kind) == [isNull |-> FALSE, top |-> <<>>, from |-> i, kind |-> kind]

\* an empty localStorage, and one that holds a response saved at time 0
EmptyStorage == [k \in CacheKeys |-> [isNull |-> TRUE]]
StorageChoices ==
  { EmptyStorage,
    [EmptyStorage EXCEPT ![getCacheKey("a", 5)] =
       [isNull |-> FALSE, fetchedAt |-> 0, data |-> Payload(0, "done")]] }

\* Date.now() - fetchedAt > CACHE_TTL_MS
Expired(fetchedAt, t) == t - fetchedAt > HookCacheTtl

\* loadFromCache(repo, top) at time t
loadFromCache(store, repo, top, t) ==
  LET raw == store[getCacheKey(repo, top)]
  IN IF raw.isNull THEN [isNull |-> TRUE]
     ELSE IF raw.data.isNull \/ Expired(raw.fetchedAt, t) THEN [isNull |-> TRUE]
     ELSE raw.data

\* saveToCache(repo, top, data) at time t
saveToCache(store, repo, top, payload, t) ==
  [store EXCEPT ![getCacheKey(repo, top)] =
     [isNull |-> FALSE, fetchedAt |-> t, data |-> payload]]

\* { currentStep: null, completedSteps: [] }
NoProgress == [currentStep |-> [isNull |-> TRUE], completedSteps |-> <<>>]

\* the lines a request may read
MessageChoices(i) ==
  { [type |-> "step_start", id |-> "metrics"],
    [type |-> "step_done", id |-> "fetch_prs"],
    [type |-> "partial", data |-> Payload(i, "partial")],
    [type |-> "done", data |-> Payload(i, "done")],
    [type |-> "error"] }

\* setLoadingProgress on step_start
StepStarted(p, id) == [p EXCEPT !.currentStep = [isNull |-> FALSE, id |-> id]]

\* setLoadingProgress on step_done
StepDone(p, id) ==
  [currentStep |-> IF ~p.currentStep.isNull /\ p.currentStep.id = id
                     THEN [isNull |-> TRUE] ELSE p.currentStep,
   completedSteps |-> IF \E k \in 1..Len(p.completedSteps) : p.completedSteps[k] = id
                        THEN p.completedSteps ELSE Append(p.completedSteps, id)]

\* a catch that sets error whether or not a cached response is shown
setErrorAlways(cached, err, i) == [isNull |-> FALSE, from |-> i]

\* catch (e) of an error other than AbortError: if (!cached) setError(...)
setErrorUnlessCached(cached, err, i) ==
  IF cached.isNull THEN [isNull |-> FALSE, from |-> i] ELSE err

\* the hook before its first effect
HookIdle ==
  /\ hookOptions = [isNull |-> TRUE]
  /\ hookData = [isNull |-> TRUE]
  /\ hookError = [isNull |-> TRUE]
  /\ loading = TRUE
  /\ loadingProgress = NoProgress
  /\ localStorage = EmptyStorage
  /\ hookNow = 0
  /\ requests = <<>>
  /\ effectRuns = 0

(***************************************************************************)
(* The caches of getInsights over time (llm-insights.ts, chunked variant). *)
(* Times are in units of 3 hours.  A cache entry also holds, as history,   *)
(* the time each of its insights came from the language model (obtained).  *)
(***************************************************************************)
\* CACHE_TTL_MS of llm-insights.ts: 6 hours
InsightCacheTtl == 2

\* a request for six engineers, two chunks
SixLogins == <<Apple, Bob, Cy, Dana, Eve, Hal>>

\* the requests of the timed calls
TimedTops == { <<>>, <<Bob>>, SixLogins }

\* a raw value that validates
GoodRaw == JObj(("summary" :> JStr(10)) @@ ("prTypes" :> PtMixed))

\* the outcomes of a chat completion in the timed calls: a throw, or an
\* insight for each of the six
TimedReplies ==
  { [kind |-> "throw"],
    [kind |-> "parsed", value |-> JObj([l \in {Apple, Bob, Cy, Dana, Eve, Hal} |-> GoodRaw])] }

\* memoryEntry && Date.now() - memoryEntry.fetchedAt < CACHE_TTL_MS
MemoryFresh(mem, t) == ~mem.isNull /\ t - mem.fetchedAt < InsightCacheTtl

\* loadFileCache(since, repo) finds an entry it accepts
FileFresh(file, t) == ~file.isNull /\ ~(t - file.fetchedAt > InsightCacheTtl)

\* step 1 of getInsights: the entry the call starts from
StartEntry(mem, file, t) ==
  IF MemoryFresh(mem, t) THEN mem
  ELSE IF FileFresh(file, t) THEN file
  ELSE [isNull |-> TRUE]

RECURSIVE ModelCalls(_, _, _, _)
\* the engineer lists passed to fetchFromOpenAI, from the c-th chunk on
ModelCalls(result, top, c, replies) ==
  IF c > NumChunks(top) THEN <<>>
  ELSE LET missing == Missing(Chunk(top, c), result)
       IN IF Len(missing) = 0 THEN ModelCalls(result, top, c + 1, replies)
          ELSE LET got == fetchFromOpenAI(missing, replies[c])
               IN IF got.threw THEN <<missing>>
                  ELSE <<missing>> \o ModelCalls(got.result @@ result, top, c + 1, replies)

RECURSIVE FetchedKeys(_, _, _, _)
\* the keys Object.assign(result, fetched) writes, from the c-th chunk on
FetchedKeys(result, top, c, replies) ==
  IF c > NumChunks(top) THEN {}
  ELSE LET missing == Missing(Chunk(top, c), result)
       IN IF Len(missing) = 0 THEN FetchedKeys(result, top, c + 1, replies)
          ELSE LET got == fetchFromOpenAI(missing, replies[c])
               IN IF got.threw THEN {}
                  ELSE DOMAIN got.result
                       \cup FetchedKeys(got.result @@ result, top, c + 1, replies)

\* the process has started: the clock at 0, no cache in memory or on disk
TimedIdle ==
  /\ insightNow = 0
  /\ memoryCache = [isNull |-> TRUE]
  /\ fileCache = [isNull |-> TRUE]
  /\ timedOut = [isNull |-> TRUE]
  /\ timedCalls = 0

(***************************************************************************)
(* The caches of getQualitySignals across requests (part_001).  An entry   *)
(* holds since and result and, as history, the repository of the request   *)
(* that computed it (computedFor).                                         *)
(***************************************************************************)
\* the repo parameter of a request
Repos == {"x/one", "y/two"}

\* sinceDate(WINDOW_DAYS) on two days
Sinces == {1, 2}

\* memoryCache && memoryCache.since === since; cached.since !== since
ForSince(entry, since) ==
  IF ~entry.isNull /\ entry.since = since THEN entry.result ELSE [isNull |-> TRUE]

\* the caches as a call with this since and repo reads them
CacheView(mem, file, since, repo) ==
  [memory |-> ForSince(mem, since), file |-> ForSince(file, since)]

\* the process has started: no quality cache in memory or on disk
RepoIdle ==
  /\ qualityMemory = [isNull |-> TRUE]
  /\ qualityFile = [isNull |-> TRUE]
  /\ qualityServed = [isNull |-> TRUE]
  /\ qualityRequests = 0

\* no client at work; requests are served by part_003
RestIdle ==
  /\ FetchIdle
  /\ routeFile = "part_003"
  /\ HookIdle
  /\ TimedIdle
  /\ RepoIdle

\* nothing but computeMetrics runs
AuxIdle ==
  /\ callerArr = <<>>
  /\ medianOut = [isNull |-> TRUE]
  /\ insightCache = [isNull |-> TRUE]
  /\ insightCalls = 0
  /\ insightsOut = [isNull |-> TRUE]
  /\ routePc = "idle"
  /\ events = <<>>
  /\ topLimit = 5
  /\ qualityCache = [memory |-> [isNull |-> TRUE], file |-> [isNull |-> TRUE]]
  /\ qualityEnv = [isNull |-> TRUE]
  /\ qualityWarning = FALSE
  /\ routeResult = [isNull |-> TRUE]
  /\ RestIdle

Init ==
  /\ AuxIdle
  /\ prs = <<>>
  /\ windowStart \in WindowStarts
  /\ now \in NowTimes
  /\ pc = "input"
  /\ authorMap = EmptyAuthorMap
  /\ reviewerFirstReview = EmptyMap
  /\ engineers = <<>>
  /\ qualityResult = Null

\* one more merged PR in the fetched list; its url is its unique key
AddPr ==
  /\ pc = "input"
  /\ Len(prs) + TotalReviews(prs) < MaxInput
  /\ \E c \in PrChoices :
       prs' = Append(prs,
                [title |-> Len(prs) + 1, url |-> Len(prs) + 1,
                 createdAt |-> c[2].createdAt, mergedAt |-> c[2].mergedAt,
                 additions |-> c[2].additions, deletions |-> c[2].deletions,
                 author |-> c[1], reviews |-> <<>>])
  /\ UNCHANGED <<windowStart, now, pc, authorMap, reviewerFirstReview, engineers,
                 qualityResult, auxVars>>

\* one more review on the last PR of the fetched list
AddReview ==
  /\ pc = "input"
  /\ Len(prs) > 0
  /\ Len(prs) + TotalReviews(prs) < MaxInput
  /\ \E r \in ReviewChoices :
       prs' = [prs EXCEPT ![Len(prs)].reviews = Append(@, r)]
  /\ UNCHANGED <<windowStart, now, pc, authorMap, reviewerFirstReview, engineers,
                 qualityResult, auxVars>>

\* computeMetrics(prs, windowStart)
ComputeMetrics ==
  /\ pc = "input"
  /\ LET out == computeMetrics(prs, windowStart)
     IN /\ authorMap' = out.authorMap
        /\ reviewerFirstReview' = out.reviewerFirstReview
        /\ engineers' = out.engineers
  /\ pc' = "done"
  /\ UNCHANGED <<prs, windowStart, now, qualityResult, auxVars>>

Next == AddPr \/ AddReview \/ ComputeMetrics

Spec == Init /\ [][Next]_vars

(***************************************************************************)
(* The same call on lists whose PRs vary in size.                          *)
(***************************************************************************)
\* additions and deletions of the PRs: below, at and above the cap
SizeChoices == { <<10, 0>>, <<1999, 0>>, <<1000, 1000>>, <<1500, 1000>>, <<3000, 0>> }

\* one more merged PR of one of two authors, of any of the sizes
AddSizedPr ==
  /\ pc = "input"
  /\ Len(prs) < MaxSizedPrs
  /\ \E login \in {Apple, Bob}, size \in SizeChoices :
       prs' = Append(prs,
                [title |-> Len(prs) + 1, url |-> Len(prs) + 1,
                 createdAt |-> 0, mergedAt |-> 0,
                 additions |-> size[1], deletions |-> size[2],
                 author |-> Author(login, ""), reviews |-> <<>>])
  /\ UNCHANGED <<windowStart, now, pc, authorMap, reviewerFirstReview, engineers,
                 qualityResult, auxVars>>

NextSize == AddSizedPr \/ ComputeMetrics

SpecSize == Init /\ [][NextSize]_vars

(***************************************************************************)
(* State machine of the calls with a quality lookup.                       *)
(***************************************************************************)
InitQuality ==
  /\ AuxIdle
  /\ prs = <<>>
  /\ windowStart \in WindowStarts
  /\ now \in NowTimes
  /\ pc = "input"
  /\ authorMap = EmptyAuthorMap
  /\ reviewerFirstReview = EmptyMap
  /\ engineers = <<>>
  /\ qualityResult \in QualityChoices

\* one more merged PR, with its merge commit, in the fetched list
AddQualityPr ==
  /\ pc = "input"
  /\ Len(prs) + TotalReviews(prs) < MaxQualityInput
  /\ \E c \in QualityPrChoices :
       prs' = Append(prs,
                [title |-> Len(prs) + 1, url |-> Len(prs) + 1,
                 createdAt |-> 0, mergedAt |-> 0,
                 mergeCommit |-> c[2],
                 additions |-> 10, deletions |-> 0,
                 author |-> c[1], reviews |-> <<>>])
  /\ UNCHANGED <<windowStart, now, pc, authorMap, reviewerFirstReview, engineers,
                 qualityResult, auxVars>>

\* one more review on the last PR of the fetched list
AddQualityReview ==
  /\ pc = "input"
  /\ Len(prs) > 0
  /\ Len(prs) + TotalReviews(prs) < MaxQualityInput
  /\ \E r \in QualityReviewChoices :
       prs' = [prs EXCEPT ![Len(prs)].reviews = Append(@, r)]
  /\ UNCHANGED <<windowStart, now, pc, authorMap, reviewerFirstReview, engineers,
                 qualityResult, auxVars>>

\* computeMetrics(prs, windowStart, qualityResult)
ComputeMetricsWithQuality ==
  /\ pc = "input"
  /\ LET out == computeMetricsWithQuality(prs, windowStart, qualityResult)
     IN /\ authorMap' = out.authorMap
        /\ engineers' = out.engineers
  /\ pc' = "done"
  /\ UNCHANGED <<prs, windowStart, now, reviewerFirstReview, qualityResult, auxVars>>

NextQuality == AddQualityPr \/ AddQualityReview \/ ComputeMetricsWithQuality

SpecQuality == InitQuality /\ [][NextQuality]_vars

(***************************************************************************)
(* State machine of the calls of median.                                   *)
(***************************************************************************)
\* the engine at rest
EngineIdle ==
  /\ prs = <<>>
  /\ windowStart = 1
  /\ now = 2
  /\ pc = "input"
  /\ authorMap = EmptyAuthorMap
  /\ reviewerFirstReview = EmptyMap
  /\ engineers = <<>>
  /\ qualityResult = Null

\* the insight generator at rest, its cache empty
InsightIdle ==
  /\ insightCache = Null
  /\ insightCalls = 0
  /\ insightsOut = Null

\* no impact request
RouteIdle ==
  /\ routePc = "idle"
  /\ events = <<>>
  /\ topLimit = 5
  /\ qualityCache = [memory |-> [isNull |-> TRUE], file |-> [isNull |-> TRUE]]
  /\ qualityEnv = [isNull |-> TRUE]
  /\ qualityWarning = FALSE
  /\ routeResult = [isNull |-> TRUE]

InitMedian ==
  /\ EngineIdle
  /\ InsightIdle
  /\ RouteIdle
  /\ RestIdle
  /\ callerArr = <<>>
  /\ medianOut = Null

\* the caller builds the array
Push ==
  /\ medianOut = Null
  /\ Len(callerArr) < MaxMedianLen
  /\ \E v \in MedianValues : callerArr' = Append(callerArr, v)
  /\ UNCHANGED <<medianOut, engineVars, insightVars, routeVars, restVars>>

\* median(callerArr); medianOut keeps the argument as it was passed
CallMedian ==
  /\ medianOut = Null
  /\ LET out == medianCall(callerArr)
     IN /\ callerArr' = out.arr
        /\ medianOut' = [isNull |-> FALSE, arg |-> callerArr, value |-> out.value]
  /\ UNCHANGED <<engineVars, insightVars, routeVars, restVars>>

NextMedian == Push \/ CallMedian

SpecMedian == InitMedian /\ [][NextMedian]_vars

(***************************************************************************)
(* State machine of the insight generator.  All calls of a run fall        *)
(* within the time to live of the first one's cache entry.                 *)
(***************************************************************************)
InitInsights ==
  /\ EngineIdle
  /\ InsightIdle
  /\ RouteIdle
  /\ RestIdle
  /\ callerArr = <<>>
  /\ medianOut = Null

\* one call of getInsights; insightsOut keeps the request and the value
\* returned
GetInsights ==
  /\ insightCalls < MaxInsightCalls
  /\ \E top \in TopChoices, apiKey \in BOOLEAN :
       \E replies \in [1..NumChunks(top) -> ReplyChoices] :
         LET out == getInsights(top, apiKey, insightCache, replies)
         IN /\ insightCache' = out.cache
            /\ insightsOut' = [isNull |-> FALSE, top |-> top, apiKey |-> apiKey,
                               replies |-> replies, ret |-> out.ret]
  /\ insightCalls' = insightCalls + 1
  /\ UNCHANGED <<engineVars, medianVars, routeVars, restVars>>

NextInsights == GetInsights

SpecInsights == InitInsights /\ [][NextInsights]_vars

(***************************************************************************)
(* State machine of one impact request.  Each action runs the handler      *)
(* from one await to the next.                                             *)
(***************************************************************************)
InitRoute ==
  /\ prs = <<>>
  /\ windowStart \in WindowStarts
  /\ now \in NowTimes
  /\ pc = "input"
  /\ authorMap = EmptyAuthorMap
  /\ reviewerFirstReview = EmptyMap
  /\ engineers = <<>>
  /\ qualityResult = Null
  /\ callerArr = <<>>
  /\ medianOut = Null
  /\ InsightIdle
  /\ RestIdle
  /\ routePc = "idle"
  /\ events = <<>>
  /\ topLimit \in TopLimits
  /\ qualityCache \in QualityCacheChoices
  /\ qualityEnv = Null
  /\ qualityWarning = FALSE
  /\ routeResult = Null

\* GET without a token: a JSON error, no stream
RejectRequest ==
  /\ routePc = "idle"
  /\ routePc' = "rejected"
  /\ UNCHANGED <<engineVars, medianVars, restVars, insightVars, events, topLimit, qualityCache,
                 qualityEnv, qualityWarning, routeResult>>

\* GET with a token, up to the await of fetchMergedPRs
StartStream ==
  /\ routePc = "idle"
  /\ routePc' = "fetch_prs"
  /\ events' = <<Event("step_start", "fetch_prs")>>
  /\ UNCHANGED <<engineVars, medianVars, restVars, insightVars, topLimit, qualityCache,
                 qualityEnv, qualityWarning, routeResult>>

\* fetchMergedPRs throws: catch and finally
FetchThrows ==
  /\ routePc = "fetch_prs"
  /\ events' = catchError(events)
  /\ routePc' = "closed"
  /\ UNCHANGED <<engineVars, medianVars, restVars, insightVars, topLimit, qualityCache,
                 qualityEnv, qualityWarning, routeResult>>

\* fetchMergedPRs returns, up to the await of getQualitySignals
FetchReturns ==
  /\ routePc = "fetch_prs"
  /\ routeFile = "part_003"
  /\ prs' \in RoutePrLists
  /\ events' = events \o <<Event("step_done", "fetch_prs"), Event("step_start", "quality")>>
  /\ routePc' = "quality"
  /\ UNCHANGED <<windowStart, now, pc, authorMap, reviewerFirstReview, engineers,
                 qualityResult, medianVars, restVars, insightVars, topLimit, qualityCache,
                 qualityEnv, qualityWarning, routeResult>>

\* getQualitySignals returns or throws; then computeMetrics and the slice,
\* up to the await of getInsights
QualityAndMetrics ==
  /\ routePc = "quality"
  /\ \E env \in QualityEnvChoices :
       LET q == getQualitySignals(MergeShas(prs, 1), qualityCache, env)
           out == computeMetricsWithQuality(prs, windowStart, q.result)
       IN /\ qualityEnv' = env
          /\ qualityCache' = q.cache
          /\ IF q.threw
               THEN /\ events' = catchError(events)
                    /\ routePc' = "closed"
                    /\ UNCHANGED <<qualityResult, qualityWarning, authorMap, engineers>>
               ELSE /\ qualityResult' = q.result
                    /\ qualityWarning' = q.warning
                    /\ authorMap' = out.authorMap
                    /\ engineers' = out.engineers
                    /\ events' = events \o <<Event("step_done", "quality"),
                                             Event("step_start", "metrics"),
                                             Event("step_done", "metrics"),
                                             Event("step_start", "insights")>>
                    /\ routePc' = "insights"
  /\ UNCHANGED <<prs, windowStart, now, pc, reviewerFirstReview, medianVars, restVars,
                 insightVars, topLimit, routeResult>>

\* getInsights returns; the result line, finally
InsightsAndDone ==
  /\ routePc = "insights"
  /\ routeFile = "part_003"
  /\ LET top == TopSlice(engineers, topLimit)
         logins == [k \in 1..Len(top) |-> top[k].login]
     IN \E apiKey \in BOOLEAN :
          \E replies \in [1..NumChunks(logins) -> ReplyChoices] :
            LET out == getInsights(logins, apiKey, insightCache, replies)
            IN /\ insightCache' = out.cache
               /\ insightsOut' = [isNull |-> FALSE, top |-> logins, apiKey |-> apiKey,
                                  replies |-> replies, ret |-> out.ret]
               /\ routeResult' = [isNull |-> FALSE,
                                  qualityWarning |-> qualityWarning,
                                  top |-> top,
                                  insights |-> IF out.ret = Null THEN Undefined ELSE out.ret]
  /\ insightCalls' = insightCalls + 1
  /\ events' = events \o <<Event("step_done", "insights"), Event("done", "")>>
  /\ routePc' = "closed"
  /\ UNCHANGED <<engineVars, medianVars, restVars, topLimit, qualityCache, qualityEnv,
                 qualityWarning>>

NextRoute ==
  \/ RejectRequest
  \/ StartStream
  \/ FetchThrows
  \/ FetchReturns
  \/ QualityAndMetrics
  \/ InsightsAndDone

SpecRoute == InitRoute /\ [][NextRoute]_vars

(***************************************************************************)
(* State machine of one impact request served by either route file:        *)
(* part_003 mines quality signals, route.ts sends a partial result.        *)
(***************************************************************************)
InitStream ==
  /\ prs = <<>>
  /\ windowStart \in WindowStarts
  /\ now \in NowTimes
  /\ pc = "input"
  /\ authorMap = EmptyAuthorMap
  /\ reviewerFirstReview = EmptyMap
  /\ engineers = <<>>
  /\ qualityResult = Null
  /\ callerArr = <<>>
  /\ medianOut = Null
  /\ InsightIdle
  /\ FetchIdle
  /\ HookIdle
  /\ TimedIdle
  /\ RepoIdle
  /\ routeFile \in RouteFiles
  /\ routePc = "idle"
  /\ events = <<>>
  /\ topLimit \in TopLimits
  /\ qualityCache \in QualityCacheChoices
  /\ qualityEnv = Null
  /\ qualityWarning = FALSE
  /\ routeResult = Null

\* route.ts: fetchMergedPRs returns; computeMetrics, the slice and the
\* partial line, up to the await of getInsights
PartialFetchReturns ==
  /\ routePc = "fetch_prs"
  /\ routeFile = "route.ts"
  /\ \E list \in RoutePrLists :
       LET out == computeMetrics(list, windowStart)
       IN /\ prs' = list
          /\ authorMap' = out.authorMap
          /\ reviewerFirstReview' = out.reviewerFirstReview
          /\ engineers' = out.engineers
  /\ events' = events \o PartialEvents
  /\ routePc' = "insights"
  /\ UNCHANGED <<windowStart, now, pc, qualityResult, medianVars, restVars, insightVars,
                 topLimit, qualityCache, qualityEnv, qualityWarning, routeResult>>

\* route.ts: getInsights returns; the result line, finally
PartialInsightsAndDone ==
  /\ routePc = "insights"
  /\ routeFile = "route.ts"
  /\ LET top == TopSlice(engineers, topLimit)
         logins == [k \in 1..Len(top) |-> top[k].login]
     IN \E apiKey \in BOOLEAN :
          \E replies \in [1..NumChunks(logins) -> ReplyChoices] :
            LET out == getInsights(logins, apiKey, insightCache, replies)
            IN /\ insightCache' = out.cache
               /\ insightsOut' = [isNull |-> FALSE, top |-> logins, apiKey |-> apiKey,
                                  replies |-> replies, ret |-> out.ret]
               /\ routeResult' = [isNull |-> FALSE,
                                  top |-> top,
                                  insights |-> IF out.ret = Null THEN Undefined ELSE out.ret]
  /\ insightCalls' = insightCalls + 1
  /\ events' = events \o <<Event("step_done", "insights"), Event("done", "")>>
  /\ routePc' = "closed"
  /\ UNCHANGED <<engineVars, medianVars, restVars, topLimit, qualityCache, qualityEnv,
                 qualityWarning>>

NextStream ==
  \/ RejectRequest
  \/ StartStream
  \/ FetchThrows
  \/ FetchReturns
  \/ QualityAndMetrics
  \/ InsightsAndDone
  \/ PartialFetchReturns
  \/ PartialInsightsAndDone

SpecStream == InitStream /\ [][NextStream]_vars

\* the awaited call settles and the handler runs on to its next await or
\* to the end of finally
AwaitSettles ==
  /\ routePc \in {"fetch_prs", "quality", "insights"}
  /\ routePc' \in {"quality", "insights", "closed"}
  /\ routePc' # routePc

\* every await of the handler settles: fetchMergedPRs, getQualitySignals and
\* getInsights return or throw, and the continuation is then scheduled
SpecStreamFair == SpecStream /\ WF_routePc(AwaitSettles)

(***************************************************************************)
(* State machine of one fetchMergedPRs call.  Each action runs the         *)
(* function from one await of graphql to the next.                         *)
(***************************************************************************)
InitFetch ==
  /\ EngineIdle
  /\ InsightIdle
  /\ RouteIdle
  /\ callerArr = <<>>
  /\ medianOut = Null
  /\ RestIdle

\* the call, up to the first request
StartFetch ==
  /\ fetchPc = "idle"
  /\ fetchPc' = "await"
  /\ lastRequest' = [isNull |-> FALSE, first |-> FirstOf(fetchedPrs), after |-> after]
  /\ pages' = 1
  /\ UNCHANGED <<fetchedPrs, after, stopSeen, fetchResult, fetchFrame>>

\* graphql returns a page: filter, push, then break, leave the loop, or
\* send the next request
PageArrives ==
  /\ fetchPc = "await"
  /\ \E resp \in PageResponses(lastRequest.first) :
       LET collected == fetchedPrs \o filterMerged(resp.nodes)
       IN /\ fetchedPrs' = collected
          /\ stopSeen' = StopPaging(resp)
          /\ IF StopPaging(resp) \/ Len(collected) >= MAX_PRS
               THEN /\ fetchResult' = SliceMax(collected)
                    /\ fetchPc' = "returned"
                    /\ UNCHANGED <<after, lastRequest, pages>>
               ELSE /\ pages < MaxPages
                    /\ after' = resp.endCursor
                    /\ lastRequest' = [isNull |-> FALSE, first |-> FirstOf(collected),
                                       after |-> resp.endCursor]
                    /\ pages' = pages + 1
                    /\ UNCHANGED <<fetchPc, fetchResult>>
  /\ UNCHANGED fetchFrame

\* graphql throws: HTTP status not ok or GraphQL errors
PageThrows ==
  /\ fetchPc = "await"
  /\ fetchPc' = "threw"
  /\ UNCHANGED <<fetchedPrs, after, lastRequest, stopSeen, pages, fetchResult, fetchFrame>>

NextFetch == StartFetch \/ PageArrives \/ PageThrows

SpecFetch == InitFetch /\ [][NextFetch]_vars

(***************************************************************************)
(* State machine of a component that uses useImpactData.  An effect run    *)
(* is one action; each request runs from one await to the next.  A request *)
(* holds the number of its effect run (id), the options and the cached     *)
(* response of that run (opts, cached), its position (pc), whether its     *)
(* signal is aborted, the number of lines read, and, as history, the       *)
(* storage entry and the time of its start and whether it has set data.    *)
(* requests holds the requests that can still act, and the latest one.     *)
(***************************************************************************)
InitHook ==
  /\ EngineIdle
  /\ InsightIdle
  /\ RouteIdle
  /\ callerArr = <<>>
  /\ medianOut = Null
  /\ FetchIdle
  /\ TimedIdle
  /\ RepoIdle
  /\ routeFile = "part_003"
  /\ hookOptions = Null
  /\ hookData = Null
  /\ hookError = Null
  /\ loading = TRUE
  /\ loadingProgress = NoProgress
  /\ localStorage \in StorageChoices
  /\ hookNow = 0
  /\ requests = <<>>
  /\ effectRuns = 0

\* abort.abort() of the cleanup: the signal of every unfinished request;
\* a finished request is dropped, and so is what an aborted request has
\* read, as all it can still do is run its finally
AbortAll(reqs) ==
  LET pending == SelectSeq(reqs, LAMBDA r : r.pc # "finished")
  IN [k \in 1..Len(pending) |->
        [id |-> pending[k].id, opts |-> pending[k].opts, cached |-> [isNull |-> TRUE],
         pc |-> "fetch", aborted |-> TRUE, reads |-> 0,
         entryAtStart |-> [isNull |-> TRUE], startedAt |-> 0, delivered |-> FALSE]]

\* the requests without the i-th
Without(reqs, i) == [k \in 1..(Len(reqs) - 1) |-> IF k < i THEN reqs[k] ELSE reqs[k + 1]]

\* the first render, or a change of repo, top or token: the cleanup of the
\* previous effect, then the effect up to the await of fetch
RunEffect ==
  /\ effectRuns < MaxEffectRuns
  /\ effectRuns' = effectRuns + 1
  /\ \E o \in HookOptions :
       /\ hookOptions' = o
       /\ IF o.repo = ""
            THEN /\ loading' = FALSE
                 /\ loadingProgress' = NoProgress
                 /\ requests' = AbortAll(requests)
                 /\ UNCHANGED <<hookData, hookError>>
            ELSE LET cached == loadFromCache(localStorage, o.repo, o.top, hookNow)
                 IN /\ hookData' = IF cached.isNull THEN hookData ELSE cached
                    /\ loading' = cached.isNull
                    /\ hookError' = Null
                    /\ loadingProgress' = StepStarted(NoProgress, "fetch_prs")
                    /\ requests' = Append(AbortAll(requests),
                         [id |-> effectRuns + 1, opts |-> o, cached |-> cached,
                          pc |-> "fetch",
                          aborted |-> FALSE, reads |-> 0,
                          entryAtStart |-> localStorage[getCacheKey(o.repo, o.top)],
                          startedAt |-> hookNow, delivered |-> FALSE])
  /\ UNCHANGED <<localStorage, hookNow, hookFrame>>

\* time passes in the browser
Tick ==
  /\ hookNow < MaxHookNow
  /\ hookNow' = hookNow + 1
  /\ UNCHANGED <<hookOptions, hookData, hookError, loading, loadingProgress, localStorage,
                 requests, effectRuns, hookFrame>>

\* fetch resolves with an ok response that has a body
ResponseOk ==
  /\ \E i \in 1..Len(requests) :
       /\ requests[i].pc = "fetch"
       /\ ~requests[i].aborted
       /\ requests' = [requests EXCEPT ![i].pc = "read"]
  /\ UNCHANGED <<hookOptions, hookData, hookError, loading, loadingProgress, localStorage,
                 hookNow, effectRuns, hookFrame>>

\* fetch or read rejects, or the response is not ok or has no body: catch,
\* then finally
RequestFails ==
  /\ \E i \in 1..Len(requests) :
       /\ requests[i].pc \in {"fetch", "read"}
       /\ ~requests[i].aborted
       /\ hookError' = setErrorUnlessCached(requests[i].cached, hookError, requests[i].id)
       /\ requests' = [requests EXCEPT ![i].pc = "finished"]
  /\ loading' = FALSE
  /\ loadingProgress' = NoProgress
  /\ UNCHANGED <<hookOptions, hookData, localStorage, hookNow, effectRuns, hookFrame>>

\* reader.read() resolves with one line, which is handled
ReadMessage ==
  /\ \E i \in 1..Len(requests) :
       /\ requests[i].pc = "read"
       /\ ~requests[i].aborted
       /\ requests[i].reads < MaxReads
       /\ \E msg \in MessageChoices(requests[i].id) :
            CASE msg.type = "step_start" ->
                   /\ loadingProgress' = StepStarted(loadingProgress, msg.id)
                   /\ requests' = [requests EXCEPT ![i].reads = @ + 1]
                   /\ UNCHANGED <<hookData, hookError, loading, localStorage>>
              [] msg.type = "step_done" ->
                   /\ loadingProgress' = StepDone(loadingProgress, msg.id)
                   /\ requests' = [requests EXCEPT ![i].reads = @ + 1]
                   /\ UNCHANGED <<hookData, hookError, loading, localStorage>>
              [] msg.type = "partial" ->
                   /\ hookData' = msg.data
                   /\ loading' = IF requests[i].cached.isNull THEN FALSE ELSE loading
                   /\ requests' = [requests EXCEPT ![i].reads = @ + 1,
                                                   ![i].delivered = TRUE]
                   /\ UNCHANGED <<hookError, loadingProgress, localStorage>>
              [] msg.type = "done" ->
                   /\ hookData' = msg.data
                   /\ localStorage' = saveToCache(localStorage, requests[i].opts.repo,
                                                  requests[i].opts.top, msg.data, hookNow)
                   /\ requests' = [requests EXCEPT ![i].reads = @ + 1,
                                                   ![i].delivered = TRUE]
                   /\ UNCHANGED <<hookError, loading, loadingProgress>>
              [] msg.type = "error" ->
                   /\ hookError' = setErrorUnlessCached(requests[i].cached, hookError,
                                                        requests[i].id)
                   /\ loading' = FALSE
                   /\ loadingProgress' = NoProgress
                   /\ requests' = [requests EXCEPT ![i].reads = @ + 1,
                                                   ![i].pc = "finished"]
                   /\ UNCHANGED <<hookData, localStorage>>
  /\ UNCHANGED <<hookOptions, hookNow, effectRuns, hookFrame>>

\* reader.read() resolves with done: break, then finally
StreamEnds ==
  /\ \E i \in 1..Len(requests) :
       /\ requests[i].pc = "read"
       /\ ~requests[i].aborted
       /\ requests' = [requests EXCEPT ![i].pc = "finished"]
  /\ loading' = FALSE
  /\ loadingProgress' = NoProgress
  /\ UNCHANGED <<hookOptions, hookData, hookError, localStorage, hookNow, effectRuns, hookFrame>>

\* the pending fetch or read of an aborted request rejects with AbortError:
\* the catch does nothing, then finally
AbortSettles ==
  /\ \E i \in 1..Len(requests) :
       /\ requests[i].pc \in {"fetch", "read"}
       /\ requests[i].aborted
       /\ requests' = Without(requests, i)
  /\ loading' = FALSE
  /\ loadingProgress' = NoProgress
  /\ UNCHANGED <<hookOptions, hookData, hookError, localStorage, hookNow, effectRuns, hookFrame>>

NextHook ==
  \/ RunEffect
  \/ Tick
  \/ ResponseOk
  \/ RequestFails
  \/ ReadMessage
  \/ StreamEnds
  \/ AbortSettles

SpecHook == InitHook /\ [][NextHook]_vars

(***************************************************************************)
(* State machine of a server process that calls getInsights over time for  *)
(* one (since, repo).                                                       *)
(***************************************************************************)
InitTimed ==
  /\ EngineIdle
  /\ InsightIdle
  /\ RouteIdle
  /\ callerArr = <<>>
  /\ medianOut = Null
  /\ FetchIdle
  /\ routeFile = "part_003"
  /\ HookIdle
  /\ TimedIdle
  /\ RepoIdle

\* 3 hours pass
TickInsights ==
  /\ insightNow < MaxInsightNow
  /\ insightNow' = insightNow + 1
  /\ UNCHANGED <<memoryCache, fileCache, timedOut, timedCalls, timedFrame>>

\* one call of getInsights at time insightNow; the cache file may not be
\* writable.  timedOut keeps the request, the caches the call found, the
\* lists sent to the model, the value returned and, for each returned key
\* that was not fetched by this call, the time it came from the model.
GetInsightsAt ==
  /\ timedCalls < MaxTimedCalls
  /\ timedCalls' = timedCalls + 1
  /\ \E top \in TimedTops, apiKey \in BOOLEAN, writable \in BOOLEAN :
       \E replies \in [1..NumChunks(top) -> TimedReplies] :
         LET start == StartEntry(memoryCache, fileCache, insightNow)
             startResult == IF start.isNull THEN EmptyMap ELSE start.result
             out == getInsights(top, apiKey,
                                IF start.isNull THEN Null
                                ELSE [isNull |-> FALSE, result |-> start.result],
                                replies)
             entered == Len(top) > 0 /\ apiKey
             got == IF entered THEN FetchedKeys(startResult, top, 1, replies) ELSE {}
             entry == [isNull |-> FALSE, fetchedAt |-> insightNow,
                       result |-> out.cache.result,
                       obtained |-> [k \in DOMAIN out.cache.result |->
                                       IF k \in got THEN insightNow
                                       ELSE start.obtained[k]]]
         IN /\ memoryCache' = IF out.ret # Null THEN entry ELSE memoryCache
            /\ fileCache' = IF out.ret # Null /\ writable THEN entry ELSE fileCache
            /\ timedOut' =
                 [isNull |-> FALSE, at |-> insightNow, top |-> top,
                  memory |-> memoryCache, file |-> fileCache,
                  calls |-> IF entered THEN ModelCalls(startResult, top, 1, replies)
                            ELSE <<>>,
                  ret |-> out.ret,
                  served |-> IF out.ret = Null THEN EmptyMap
                             ELSE [k \in (DOMAIN out.ret.result) \ got |->
                                     start.obtained[k]]]
  /\ UNCHANGED <<insightNow, timedFrame>>

NextTimed == TickInsights \/ GetInsightsAt

SpecTimed == InitTimed /\ [][NextTimed]_vars

(***************************************************************************)
(* State machine of a server process that serves impact requests for       *)
(* different repositories, as far as getQualitySignals goes.  Every        *)
(* request falls within the TTL of the entries it finds.                   *)
(***************************************************************************)
InitRepos ==
  /\ EngineIdle
  /\ InsightIdle
  /\ RouteIdle
  /\ callerArr = <<>>
  /\ medianOut = Null
  /\ RestIdle

\* GET ?repo=...: getQualitySignals(mergeShas, since, repo).  qualityServed
\* keeps the request, the result, whether it came from a cache, and the
\* since and repository it was computed for.
QualityRequest ==
  /\ qualityRequests < MaxQualityRequests
  /\ qualityRequests' = qualityRequests + 1
  /\ \E repo \in Repos, since \in Sinces, env \in QualityEnvChoices,
        shas \in {<<>>, <<HashAb1>>} :
       LET view == CacheView(qualityMemory, qualityFile, since, repo)
           q == getQualitySignals(shas, view, env)
           hit == IF view.memory # Null THEN qualityMemory
                  ELSE IF view.file # Null THEN qualityFile
                  ELSE Null
           fresh == [isNull |-> FALSE, since |-> since, result |-> q.result,
                     computedFor |-> repo]
       IN /\ qualityMemory' =
               IF view.memory # Null \/ q.cache.memory = Null THEN qualityMemory
               ELSE IF hit # Null THEN [hit EXCEPT !.since = since]
               ELSE fresh
          /\ qualityFile' = IF q.cache.file # view.file THEN fresh ELSE qualityFile
          /\ qualityServed' =
               [isNull |-> FALSE, repo |-> repo, since |-> since, result |-> q.result,
                fromCache |-> hit # Null,
                computedFor |-> IF hit # Null THEN hit.computedFor ELSE repo,
                computedSince |-> IF hit # Null THEN hit.since ELSE since]
  /\ UNCHANGED repoFrame

NextRepos == QualityRequest

SpecRepos == InitRepos /\ [][NextRepos]_vars

(***************************************************************************)
(* Vocabulary of the properties: the input as the caller sees it.          *)
(***************************************************************************)
Done == pc = "done"

\* the logins that match the bot pattern
BotLogins == { l \in Logins : BOT_RE(l) }
IsBotLogin(l) == l \in BotLogins

\* the reviews of the input, as <<index of the PR, index of the review>>
InputReviews == { x \in (1..Len(prs)) \X (1..MaxInput) : x[2] <= Len(prs[x[1]].reviews) }

PrLogin(p) == LoginOf(prs[p].author)
ReviewerOf(x) == LoginOf(prs[x[1]].reviews[x[2]].author)
SubmittedAt(x) == prs[x[1]].reviews[x[2]].submittedAt

\* the positions of a login in the output, and in the key order of authorMap
OutIdx(login) == { k \in 1..Len(engineers) : engineers[k].login = login }
KeyIdx(login) == { k \in 1..Len(authorMap.order) : authorMap.order[k] = login }
OutLogins == { engineers[k].login : k \in 1..Len(engineers) }

\* the PRs a login authored
PrsBy(login) == { p \in 1..Len(prs) : PrLogin(p) = login }

\* the reviews of a login that the engine reaches and does not discard as
\* a bot's or as a self-review: the PR has a non-bot author other than the reviewer
EligibleReviewsBy(login) ==
  { x \in InputReviews :
      /\ ReviewerOf(x) = login
      /\ login # <<>> /\ ~IsBotLogin(login)
      /\ PrLogin(x[1]) # <<>> /\ ~IsBotLogin(PrLogin(x[1]))
      /\ PrLogin(x[1]) # login }

\* the reviews of a login that count
CountedReviewsBy(login) ==
  { x \in EligibleReviewsBy(login) : SubmittedAt(x) >= windowStart }

\* every login of the input
InputLogins ==
  ({ PrLogin(p) : p \in 1..Len(prs) } \cup { ReviewerOf(x) : x \in InputReviews }) \ {<<>>}

(***************************************************************************)
(* C1                                                                      *)
(***************************************************************************)
\* C1: the list returned by computeMetrics is sorted by total descending:
\* every adjacent pair (a, b) of the output has a.total >= b.total.
C1_SortedByTotalDesc ==
  \A k \in 1..(Len(engineers) - 1) : engineers[k].total >= engineers[k + 1].total

\* the sort had work to do: a login inserted later in authorMap outranks an earlier one
C1_Witness ==
  /\ Done
  /\ \E a, b \in 1..Len(engineers) :
       /\ a < b
       /\ engineers[a].total > engineers[b].total
       /\ \E ka \in KeyIdx(engineers[a].login), kb \in KeyIdx(engineers[b].login) : ka > kb

(***************************************************************************)
(* C2                                                                      *)
(***************************************************************************)
\* C2: every login appears at most once in the output, also when the same
\* login is both a PR author and a reviewer, whichever comes first.
C2_LoginAtMostOnce ==
  \A a, b \in 1..Len(engineers) :
    engineers[a].login = engineers[b].login => a = b

\* apple is first seen as a counted reviewer of bob's PR, then as an author
C2_Witness ==
  /\ Done
  /\ Len(prs) = 2
  /\ PrLogin(1) = Bob
  /\ PrLogin(2) = Apple
  /\ CountedReviewsBy(Apple) # {}
  /\ \E k \in OutIdx(Apple) : engineers[k].merged_prs = 1 /\ engineers[k].reviews_given = 1

(***************************************************************************)
(* C3                                                                      *)
(***************************************************************************)
RECURSIVE SelectSeqBy(_, _, _)
\* the elements of s at the positions of keep, in order, from position k on
SelectSeqBy(s, keep, k) ==
  IF k > Len(s) THEN <<>>
  ELSE IF k \in keep THEN <<s[k]>> \o SelectSeqBy(s, keep, k + 1)
  ELSE SelectSeqBy(s, keep, k + 1)

\* the input without the PRs that bots authored and without the reviews of bots
WithoutBots ==
  LET humanPrs == { p \in 1..Len(prs) : ~IsBotLogin(PrLogin(p)) }
      strip(pr) ==
        [pr EXCEPT !.reviews =
           SelectSeqBy(pr.reviews,
                       { k \in 1..Len(pr.reviews) : ~IsBotLogin(LoginOf(pr.reviews[k].author)) },
                       1)]
      kept == SelectSeqBy(prs, humanPrs, 1)
  IN [k \in 1..Len(kept) |-> strip(kept[k])]

\* C3: no login matching the bot pattern appears in the output, and bot
\* activity changes no tally: the output is the one computed from the input
\* with the bot-authored PRs and the bots' reviews left out.
C3_BotsExcluded ==
  Done =>
    /\ \A k \in 1..Len(engineers) : ~IsBotLogin(engineers[k].login)
    /\ engineers = computeMetrics(WithoutBots, windowStart).engineers

\* a bot authored a PR and a bot reviewed, inside the window, a PR that is scored
C3_Witness ==
  /\ Done
  /\ \E p \in 1..Len(prs) : IsBotLogin(PrLogin(p))
  /\ \E x \in InputReviews :
       /\ IsBotLogin(ReviewerOf(x))
       /\ SubmittedAt(x) >= windowStart
       /\ PrLogin(x[1]) \in OutLogins

(***************************************************************************)
(* C4                                                                      *)
(***************************************************************************)
\* C4: self-reviews never count: reviewsGivenCount of a login is at most the
\* number of its reviews on PRs of other authors, so a review whose author
\* is the PR's author adds nothing, wherever it stands in the input.
C4_SelfReviewsNeverCount ==
  Done =>
    \A k \in 1..Len(engineers) :
      engineers[k].reviews_given <=
        Cardinality({ x \in InputReviews :
                        /\ ReviewerOf(x) = engineers[k].login
                        /\ PrLogin(x[1]) # engineers[k].login })

\* an author reviewed their own PR inside the window and has a profile
C4_Witness ==
  /\ Done
  /\ \E x \in InputReviews :
       /\ ReviewerOf(x) = PrLogin(x[1])
       /\ ReviewerOf(x) # <<>> /\ ~IsBotLogin(ReviewerOf(x))
       /\ SubmittedAt(x) >= windowStart
       /\ \E k \in OutIdx(ReviewerOf(x)) : engineers[k].reviews_given = 0

(***************************************************************************)
(* C5                                                                      *)
(***************************************************************************)
\* reviewsGivenCount of a login: that of its profile, 0 without a profile
ReviewsGivenOf(login) ==
  IF OutIdx(login) = {} THEN 0
  ELSE engineers[CHOOSE k \in OutIdx(login) : TRUE].reviews_given

\* the logins a review count is defined for
HumanLogins == { l \in InputLogins : ~IsBotLogin(l) }

\* C5: the lower bound of the window is strict. Among the reviews the inner
\* loop reaches (a non-bot reviewer other than the PR's author, on a PR that
\* is scored), a review is excluded from reviewsGivenCount exactly when its
\* submittedAt is strictly before windowStart: one before windowStart is
\* never counted, one at exactly windowStart is counted.
C5_WindowLowerBound ==
  Done =>
    \A l \in HumanLogins :
      ReviewsGivenOf(l) = Cardinality(CountedReviewsBy(l))

\* one reviewer has a review at exactly windowStart, which counts, and one
\* strictly before it, which does not
C5_Witness ==
  /\ Done
  /\ \E x, y \in EligibleReviewsBy(Cy) :
       /\ SubmittedAt(x) = windowStart
       /\ SubmittedAt(y) < windowStart
  /\ ReviewsGivenOf(Cy) = 1

(***************************************************************************)
(* C6                                                                      *)
(***************************************************************************)
\* the response-time samples: <<reviewer, url of the PR>>
Samples ==
  { y \in (DOMAIN reviewerFirstReview) \X (1..Len(prs)) :
      y[2] \in DOMAIN reviewerFirstReview[y[1]] }

MinSubmittedAt(y) == reviewerFirstReview[y[1]][y[2]].minSubmittedAt

\* C6 as stated: only reviews inside [windowStart, now] are counted and sampled.
C6_Original ==
  Done =>
    /\ \A l \in HumanLogins :
         ReviewsGivenOf(l) <=
           Cardinality({ x \in EligibleReviewsBy(l) :
                           SubmittedAt(x) >= windowStart /\ SubmittedAt(x) <= now })
    /\ \A y \in Samples : MinSubmittedAt(y) >= windowStart /\ MinSubmittedAt(y) <= now

\* C6 (amended): reviews before windowStart are excluded from
\* reviewsGivenCount and from the response-time samples; the window has no
\* upper bound: a review later than now is counted and sampled like any
\* other review at or after windowStart.
C6_WindowHasNoUpperBound ==
  Done =>
    /\ \A l \in HumanLogins :
         ReviewsGivenOf(l) <= Cardinality(CountedReviewsBy(l))
    /\ \A y \in Samples :
         /\ MinSubmittedAt(y) >= windowStart
         /\ \E x \in CountedReviewsBy(y[1]) : x[1] = y[2] /\ SubmittedAt(x) = MinSubmittedAt(y)
    /\ \A l \in HumanLogins :
         LET late == { x \in EligibleReviewsBy(l) :
                         SubmittedAt(x) > now /\ SubmittedAt(x) >= windowStart }
         IN /\ ReviewsGivenOf(l) >= Cardinality(late)
            /\ \A x \in late : <<l, x[1]>> \in Samples

\* one reviewer has a review later than now, which is counted and sampled,
\* and one before windowStart, which is neither
C6_Witness ==
  /\ Done
  /\ \E x, y \in EligibleReviewsBy(Cy) :
       /\ SubmittedAt(x) > now
       /\ SubmittedAt(y) < windowStart
       /\ x[1] # y[1]
       /\ <<Cy, x[1]>> \in Samples
       /\ <<Cy, y[1]>> \notin Samples
  /\ ReviewsGivenOf(Cy) = 1

(***************************************************************************)
(* C7                                                                      *)
(***************************************************************************)
\* C7 as stated: one profile per non-bot login that authored a PR or
\* submitted a review, and no other.
C7_Original ==
  Done =>
    /\ OutLogins = HumanLogins
    /\ Len(engineers) = Cardinality(OutLogins)

\* C7 (amended): the output has exactly one profile for each distinct
\* non-bot login that authored at least one PR or submitted at least one
\* counted review (at or after windowStart, on a PR whose author is present,
\* not a bot and not the reviewer), and no other profile.
C7_ProfilesExactly ==
  Done =>
    /\ OutLogins = { l \in HumanLogins : PrsBy(l) # {} \/ CountedReviewsBy(l) # {} }
    /\ Len(engineers) = Cardinality(OutLogins)

\* a login known only by a counted review has a profile, a non-bot login
\* known only by a review on a bot's PR has none
C7_Witness ==
  /\ Done
  /\ Cy \in OutLogins
  /\ PrsBy(Cy) = {}
  /\ Apple \in HumanLogins
  /\ Apple \notin OutLogins

(***************************************************************************)
(* C8                                                                      *)
(***************************************************************************)
RECURSIVE SumOver(_, _)
\* the sum of f[x] for x in S
SumOver(S, f) ==
  IF S = {} THEN 0
  ELSE LET x == CHOOSE y \in S : TRUE IN f[x] + SumOver(S \ {x}, f)

\* ln(1 + min(additions + deletions, 2000)) of each PR of the input, micro-points
InputSizeScore ==
  [p \in 1..Len(prs) |-> Log1p(Min(prs[p].additions + prs[p].deletions, 2000))]

\* C8: mergedPrCount of a profile is the number of input PRs whose author is
\* that login, and prPoints is computed over all of them, whatever
\* windowStart: a PR created and merged before windowStart counts.
C8_MergedPrCountFullList ==
  Done =>
    \A k \in 1..Len(engineers) :
      LET mine == PrsBy(engineers[k].login)
      IN /\ engineers[k].merged_prs = Cardinality(mine)
         /\ engineers[k].breakdown.pr_points =
              Round2(3000000 * Cardinality(mine) + SumOver(mine, InputSizeScore))

\* a profile owns a PR created and merged before windowStart, and it counts
C8_Witness ==
  /\ Done
  /\ \E k \in 1..Len(engineers) :
       /\ engineers[k].merged_prs = 2
       /\ \E p \in PrsBy(engineers[k].login) :
            prs[p].createdAt < windowStart /\ prs[p].mergedAt < windowStart

(***************************************************************************)
(* C9                                                                      *)
(***************************************************************************)
\* the raw total of a profile, from its counts and the sizes of its PRs
RawTotalOf(e) ==
  3000000 * e.merged_prs + SumOver(PrsBy(e.login), InputSizeScore)
    + 1200000 * e.reviews_given

Abs(n) == IF n < 0 THEN 0 - n ELSE n

\* C9: total is the raw sum prPoints + reviewPoints rounded to 2 decimals,
\* and is within 0.01 of the sum of the two rounded breakdown values.
C9_TotalRoundedFromRawSum ==
  Done =>
    \A k \in 1..Len(engineers) :
      /\ engineers[k].total = Round2(RawTotalOf(engineers[k]))
      /\ Abs(engineers[k].total
             - (engineers[k].breakdown.pr_points + engineers[k].breakdown.review_points)) <= 1

\* a profile with both kinds of points whose raw total is not a whole
\* number of hundredths, so that rounding acts
C9_Witness ==
  /\ Done
  /\ \E k \in 1..Len(engineers) :
       /\ engineers[k].merged_prs > 0
       /\ engineers[k].reviews_given > 0
       /\ RawTotalOf(engineers[k]) % 10000 >= 5000

(***************************************************************************)
(* C10                                                                     *)
(***************************************************************************)
\* the places of the input where grouping meets a login: its PRs that are
\* scored and its counted reviews, numbered in the order of the two loops
SeenAt(login) ==
  { p * (MaxInput + 1) : p \in { q \in PrsBy(login) : ~IsBotLogin(login) } }
    \cup { x[1] * (MaxInput + 1) + x[2] : x \in CountedReviewsBy(login) }

FirstSeen(login) == CHOOSE n \in SeenAt(login) : \A m \in SeenAt(login) : n <= m

\* C10: ties keep encounter order: of two profiles with equal total, the one
\* whose login was first seen during grouping comes earlier in the output.
C10_TiesKeepEncounterOrder ==
  Done =>
    \A a, b \in 1..Len(engineers) :
      (a < b /\ engineers[a].total = engineers[b].total)
        => FirstSeen(engineers[a].login) < FirstSeen(engineers[b].login)

\* two profiles tie
C10_Witness ==
  /\ Done
  /\ \E a, b \in 1..Len(engineers) :
       a < b /\ engineers[a].total = engineers[b].total

(***************************************************************************)
(* C11                                                                     *)
(***************************************************************************)
\* C11: topRecentPrs of a profile has min(3, mergedPrCount) entries, each the
\* projection of a different PR of that login, ordered by mergedAt
\* descending, and no PR of the login that is left out was merged later
\* than an included one.
C11_TopRecentPrs ==
  Done =>
    \A k \in 1..Len(engineers) :
      LET e == engineers[k]
          top == e.topPRs
          mine == PrsBy(e.login)
          shown == { top[i].url : i \in 1..Len(top) }
      IN /\ Len(top) = Min(3, e.merged_prs)
         /\ Cardinality(shown) = Len(top)
         /\ \A i \in 1..Len(top) :
              /\ top[i].url \in mine
              /\ top[i] = [title |-> prs[top[i].url].title, url |-> top[i].url,
                           mergedAt |-> prs[top[i].url].mergedAt,
                           additions |-> prs[top[i].url].additions,
                           deletions |-> prs[top[i].url].deletions]
         /\ \A i \in 1..(Len(top) - 1) : top[i].mergedAt >= top[i + 1].mergedAt
         /\ \A p \in mine \ shown :
              \A i \in 1..Len(top) : prs[p].mergedAt <= top[i].mergedAt

\* a login has four PRs, the last of the input merged latest: it is shown
\* first and an earlier, older one is left out
C11_Witness ==
  /\ Done
  /\ \E k \in 1..Len(engineers) :
       /\ engineers[k].merged_prs = 4
       /\ engineers[k].topPRs[1].url = 4
       /\ \E p \in PrsBy(engineers[k].login) :
            /\ \A i \in 1..3 : engineers[k].topPRs[i].url # p
            /\ prs[p].mergedAt < prs[4].mergedAt

(***************************************************************************)
(* C12                                                                     *)
(***************************************************************************)
\* C12: medianReviewResponseHours of a profile is null exactly when the
\* login has no counted review (reviewsGivenCount = 0), a number otherwise.
C12_MedianResponseNullIffNoReview ==
  Done =>
    \A k \in 1..Len(engineers) :
      (engineers[k].medianReviewResponseHours = Null) <=> (engineers[k].reviews_given = 0)

\* one profile has a counted review and a median, another has a review
\* before windowStart only, hence no counted review and null
C12_Witness ==
  /\ Done
  /\ \E k \in 1..Len(engineers) :
       /\ engineers[k].reviews_given > 0
       /\ engineers[k].medianReviewResponseHours # Null
  /\ \E k \in 1..Len(engineers) :
       /\ engineers[k].reviews_given = 0
       /\ engineers[k].medianReviewResponseHours = Null
       /\ \E x \in EligibleReviewsBy(engineers[k].login) : SubmittedAt(x) < windowStart


(***************************************************************************)
(* Vocabulary of the quality claims.                                       *)
(***************************************************************************)
\* the input PRs that carry a merge-commit hash
HasHash(p) == prs[p].mergeCommit # Null

\* the value the lookup holds under the lower-cased hash of input PR p
ValueOfHash(p) ==
  LET h == toLowerCase(prs[p].mergeCommit.oid)
  IN IF h \in DOMAIN qualityResult.touchedTests
       THEN qualityResult.touchedTests[h] ELSE "absent"

\* the PRs of a login whose hash maps to one of the given values
MappedTo(login, values) ==
  { p \in PrsBy(login) : HasHash(p) /\ ValueOfHash(p) \in values }

\* the keys of the lookup that hold a boolean
BooleanKeys ==
  { key \in DOMAIN qualityResult.touchedTests :
      qualityResult.touchedTests[key] \in {"true", "false"} }

\* the input list without the PRs of a null author
WithoutNullAuthors == SelectSeqBy(prs, { p \in 1..Len(prs) : prs[p].author # Null }, 1)

\* C13: without a quality lookup the call completes and every profile's
\* quality field is null; with a lookup every profile's quality field is
\* non-null.
C13_QualityNullIffNoLookup ==
  Done => \A k \in 1..Len(engineers) :
            (engineers[k].quality = Null) <=> (qualityResult = Null)

\* C13 witness: a completed call without a lookup that returned a profile
\* for an author whose PR carries a merge-commit hash.
C13_Witness ==
  /\ Done
  /\ qualityResult = Null
  /\ \E k \in 1..Len(engineers) :
       /\ engineers[k].quality = Null
       /\ \E p \in PrsBy(engineers[k].login) : HasHash(p)

\* C14: with a lookup, total_prs_with_merge_commit_found is the number of
\* the login's PRs whose hash maps to true or false, prs_with_tests the
\* number of those mapping to true, prs_with_tests <= total found <=
\* merged_prs, and test_touch_ratio is null exactly when total found is 0;
\* a hash that is absent or maps to null is in neither count.
C14_UnknownExcluded ==
  (Done /\ qualityResult # Null) =>
    \A k \in 1..Len(engineers) :
      LET q == engineers[k].quality
          login == engineers[k].login
      IN /\ q.total_prs_with_merge_commit_found
              = Cardinality(MappedTo(login, {"true", "false"}))
         /\ q.prs_with_tests = Cardinality(MappedTo(login, {"true"}))
         /\ q.prs_with_tests <= q.total_prs_with_merge_commit_found
         /\ q.total_prs_with_merge_commit_found <= engineers[k].merged_prs
         /\ (q.test_touch_ratio = Null) <=> (q.total_prs_with_merge_commit_found = 0)

\* C14 witness: a profile with three merged PRs whose hashes map to true,
\* to false and to null: two found, one with tests, ratio 0.50.
C14_Witness ==
  /\ Done
  /\ qualityResult # Null
  /\ \E k \in 1..Len(engineers) :
       /\ engineers[k].merged_prs = 3
       /\ MappedTo(engineers[k].login, {"null"}) # {}
       /\ engineers[k].quality.total_prs_with_merge_commit_found = 2
       /\ engineers[k].quality.prs_with_tests = 1
       /\ engineers[k].quality.test_touch_ratio = [isNull |-> FALSE, hundredths |-> 50]

\* C15 as stated: every PR of the login whose hash equals a boolean-valued
\* lookup key up to letter case is counted in
\* total_prs_with_merge_commit_found, whichever side has the upper case.
C15_Original ==
  (Done /\ qualityResult # Null) =>
    \A k \in 1..Len(engineers) :
      engineers[k].quality.total_prs_with_merge_commit_found
        >= Cardinality({ p \in PrsBy(engineers[k].login) :
                           /\ HasHash(p)
                           /\ \E key \in BooleanKeys :
                                toLowerCase(key) = toLowerCase(prs[p].mergeCommit.oid) })

\* C15 amended: only the PR's hash is lower-cased.  The PRs counted are
\* exactly those whose hash equals, up to the case of the hash's letters, a
\* boolean-valued key that is itself in lower case; a key carrying an
\* upper-case letter matches no PR.
C15_PrHashLowerCased ==
  (Done /\ qualityResult # Null) =>
    \A k \in 1..Len(engineers) :
      engineers[k].quality.total_prs_with_merge_commit_found
        = Cardinality({ p \in PrsBy(engineers[k].login) :
                          /\ HasHash(p)
                          /\ \E key \in BooleanKeys :
                               /\ key = toLowerCase(key)
                               /\ key = toLowerCase(prs[p].mergeCommit.oid) })

\* C15 witness: a profile whose only PR has a hash with upper-case letters,
\* found under the lower-case key.
C15_Witness ==
  /\ Done
  /\ qualityResult # Null
  /\ \E k \in 1..Len(engineers) :
       /\ engineers[k].merged_prs = 1
       /\ \E p \in PrsBy(engineers[k].login) :
            /\ HasHash(p)
            /\ prs[p].mergeCommit.oid # toLowerCase(prs[p].mergeCommit.oid)
            /\ toLowerCase(prs[p].mergeCommit.oid) \in BooleanKeys
       /\ engineers[k].quality.total_prs_with_merge_commit_found = 1

\* C18: the call completes on every well-typed input, and (a) PRs of a null
\* author change nothing: the output is the output for the list without
\* them, so they add to no merged_prs and none of their reviews is counted;
\* (b) PRs without a merge-commit hash add nothing to the quality counters;
\* (c) PRs without reviews add to no reviews_given: the counts sum to at
\* most the number of reviews present on PRs of a known author.
C18_DegradesToZero ==
  Done =>
    /\ engineers
         = computeMetricsWithQuality(WithoutNullAuthors, windowStart, qualityResult).engineers
    /\ \A k \in 1..Len(engineers) :
         /\ engineers[k].login # <<>>
         /\ qualityResult # Null =>
              engineers[k].quality.total_prs_with_merge_commit_found
                <= Cardinality({ p \in PrsBy(engineers[k].login) : HasHash(p) })
    /\ SumOver(1..Len(engineers), [k \in 1..Len(engineers) |-> engineers[k].reviews_given])
         <= Cardinality({ x \in InputReviews : PrLogin(x[1]) # <<>> })

\* C18 witness: a completed call with a lookup on a list holding a PR of a
\* null author reviewed by a human inside the window, and a PR of a known
\* author with neither merge commit nor reviews, which has a profile.
C18_Witness ==
  /\ Done
  /\ qualityResult # Null
  /\ \E x \in InputReviews :
       /\ prs[x[1]].author = Null
       /\ ~IsBotLogin(ReviewerOf(x))
       /\ SubmittedAt(x) >= windowStart
  /\ \E k \in 1..Len(engineers) :
       \E p \in PrsBy(engineers[k].login) :
         /\ ~HasHash(p)
         /\ Len(prs[p].reviews) = 0
         /\ engineers[k].quality.total_prs_with_merge_commit_found = 0

(***************************************************************************)
(* Vocabulary of the median claim.                                         *)
(***************************************************************************)
\* the k-th smallest element of a, found by counting
KthSmallest(a, k) ==
  CHOOSE x \in { a[i] : i \in 1..Len(a) } :
    /\ Cardinality({ i \in 1..Len(a) : a[i] < x }) < k
    /\ Cardinality({ i \in 1..Len(a) : a[i] <= x }) >= k

\* C16: median returns 0 for the empty array, the middle element of the
\* values in ascending order for an odd length, the mean of the two middle
\* elements for an even length, whatever the order of the input, and the
\* array it was given is the same after the call.
C16_MedianOfSortedCopy ==
  medianOut # Null =>
    LET a == medianOut.arg
        n == Len(a)
    IN /\ callerArr = a
       /\ n = 0 => medianOut.value = 0
       /\ n % 2 = 1 => medianOut.value = KthSmallest(a, (n + 1) \div 2)
       /\ (n > 0 /\ n % 2 = 0) =>
            2 * medianOut.value = KthSmallest(a, n \div 2) + KthSmallest(a, n \div 2 + 1)

\* C16 witness: a call with four values in descending order whose two
\* middle values differ; the result is their mean.
C16_Witness ==
  /\ medianOut # Null
  /\ medianOut.arg = <<20, 4, 2, -2>>
  /\ medianOut.value = 3
  /\ callerArr = <<20, 4, 2, -2>>

(***************************************************************************)
(* Vocabulary of the insight claims.                                       *)
(***************************************************************************)
\* the seven categories
PrTypeCategories == {"bugfix", "feature", "refactor", "infra", "docs", "test", "other"}

\* a non-negative whole number
IsCount(v) == v.t = "number" /\ ~v.infinite /\ v.tenths >= 0 /\ v.tenths % 10 = 0

\* C19 as stated: every insight returned by getInsights has a summary of at
\* most 240 characters and a prTypes that maps exactly the seven categories
\* to non-negative integers.
C19_ReturnedInsightsValid ==
  (insightsOut # Null /\ insightsOut.ret # Null) =>
    \A l \in DOMAIN insightsOut.ret.result :
      LET insight == insightsOut.ret.result[l]
      IN /\ insight.summary.t = "string"
         /\ insight.summary.length <= 240
         /\ DOMAIN insight.prTypes = PrTypeCategories
         /\ \A k \in DOMAIN insight.prTypes : IsCount(insight.prTypes[k])

(***************************************************************************)
(* Vocabulary of the route claims.                                         *)
(***************************************************************************)
HasEvent(type, id) == \E i \in 1..Len(events) : events[i] = Event(type, id)

\* the PR fetch succeeded
Fetched == HasEvent("step_done", "fetch_prs")

\* the quality collaborator was asked, found no cached result, and the
\* artifact, the clone or the miner failed
QualityFailed ==
  /\ qualityEnv # Null
  /\ qualityCache.memory = Null
  /\ \/ qualityEnv.artifactUrl /\ qualityEnv.artifact # "ok"
     \/ /\ ~qualityEnv.artifactUrl
        /\ MergeShas(prs, 1) # <<>>
        /\ \/ ~qualityEnv.cloned /\ ~qualityEnv.clone
           \/ qualityEnv.miner # "ok"

\* the insight collaborator was asked and had no API key, or a completion
\* threw or did not parse to an object, or no completion held any JSON
InsightFailed ==
  /\ insightsOut # Null
  /\ Len(insightsOut.top) > 0
  /\ \/ ~insightsOut.apiKey
     \/ \E c \in DOMAIN insightsOut.replies :
          \/ insightsOut.replies[c].kind = "throw"
          \/ insightsOut.replies[c].kind = "parsed" /\ insightsOut.replies[c].value.t # "object"
     \/ \A c \in DOMAIN insightsOut.replies : insightsOut.replies[c].kind \in {"empty", "invalid"}

\* C20: a request whose PR fetch succeeded ends with the done event and no
\* error event, carrying the first topLimit computed profiles, whatever the
\* quality and insight collaborators did; when the quality collaborator
\* failed the lookup is null and every quality field is null, when the
\* insight collaborator failed the result has no insights.
C20_CollaboratorFailureNeverAborts ==
  (routePc = "closed" /\ Fetched) =>
    /\ events[Len(events)] = Event("done", "")
    /\ ~HasEvent("error", "")
    /\ routeResult # Null
    /\ routeResult.top = TopSlice(engineers, topLimit)
    /\ QualityFailed =>
         /\ qualityResult = Null
         /\ routeResult.qualityWarning
         /\ \A k \in 1..Len(routeResult.top) : routeResult.top[k].quality = Null
    /\ InsightFailed => routeResult.insights = Undefined

\* C20 witness: a closed request on six authors with topLimit 5 where the
\* clone failed and the completion threw: done with five profiles.
C20_Witness ==
  /\ routePc = "closed"
  /\ Fetched
  /\ QualityFailed
  /\ ~qualityEnv.artifactUrl
  /\ InsightFailed
  /\ insightsOut.apiKey
  /\ Len(engineers) = 6
  /\ Len(routeResult.top) = 5
  /\ HasEvent("done", "")

(***************************************************************************)
(* Vocabulary of the size claim.                                           *)
(***************************************************************************)
\* changed lines of input PR p
SizeOf(p) == prs[p].additions + prs[p].deletions

\* the input with the size of PR p replaced
WithSize(p, size) == [prs EXCEPT ![p].additions = size[1], ![p].deletions = size[2]]

\* the profile of a login in a list of profiles
ProfileOf(list, login) == list[CHOOSE k \in 1..Len(list) : list[k].login = login]

\* C24: replacing the size of one PR by another size, both at or above
\* 2000 changed lines, changes no profile's pr_points or total; replacing
\* it by a size at least as large never lowers its author's pr_points.
C24_SizeCappedAndMonotone ==
  Done =>
    \A p \in 1..Len(prs), size \in SizeChoices :
      LET other == computeMetrics(WithSize(p, size), windowStart).engineers
      IN /\ (SizeOf(p) >= 2000 /\ size[1] + size[2] >= 2000) =>
              \A k \in 1..Len(engineers) :
                LET twin == ProfileOf(other, engineers[k].login)
                IN /\ twin.breakdown.pr_points = engineers[k].breakdown.pr_points
                   /\ twin.total = engineers[k].total
         /\ size[1] + size[2] >= SizeOf(p) =>
              ProfileOf(other, PrLogin(p)).breakdown.pr_points
                >= ProfileOf(engineers, PrLogin(p)).breakdown.pr_points

\* C24 witness: a completed call on a list with a PR of 2500 changed lines
\* and a PR of 3000 by the same author, and a smaller PR by the other.
C24_Witness ==
  /\ Done
  /\ \E p, q, r \in 1..Len(prs) :
       /\ SizeOf(p) = 2500
       /\ SizeOf(q) = 3000
       /\ PrLogin(p) = PrLogin(q)
       /\ SizeOf(r) = 1999
       /\ PrLogin(r) # PrLogin(p)
  /\ Len(engineers) = 2

(***************************************************************************)
(* Vocabulary of the response-time claim.                                  *)
(***************************************************************************)
\* the counted reviews of a login on input PR p
CountedOn(login, p) == { x \in CountedReviewsBy(login) : x[1] = p }

\* the PRs on which a login has a counted review
ReviewedPrs(login) == { p \in 1..Len(prs) : CountedOn(login, p) # {} }

\* the earliest counted review of a login on PR p, in hours
EarliestOn(login, p) ==
  CHOOSE t \in { SubmittedAt(x) : x \in CountedOn(login, p) } :
    \A x \in CountedOn(login, p) : t <= SubmittedAt(x)

\* the response times a login should have, one per reviewed PR, in tenths
\* of an hour, in some order
ExpectedResponseTimes(login) ==
  LET ps == SetToSeq(ReviewedPrs(login))
  IN [k \in 1..Len(ps) |-> (EarliestOn(login, ps[k]) - prs[ps[k]].createdAt) * 10]

\* the median of a non-empty sequence, by counting; twice the value
TwiceMedianByCounting(a) ==
  LET n == Len(a)
  IN IF n % 2 = 1 THEN 2 * KthSmallest(a, (n + 1) \div 2)
     ELSE KthSmallest(a, n \div 2) + KthSmallest(a, n \div 2 + 1)

\* C25: the first-review map holds exactly one entry per (reviewer, PR)
\* with a counted review, carrying the PR's createdAt and the least
\* submittedAt of the reviewer's counted reviews on it, however many there
\* are and in whatever order; the median reported is the median of these.
C25_OneSamplePerPairAtMinimum ==
  Done =>
    /\ Samples = { y \in InputLogins \X (1..Len(prs)) : CountedOn(y[1], y[2]) # {} }
    /\ \A y \in Samples :
         /\ MinSubmittedAt(y) = EarliestOn(y[1], y[2])
         /\ reviewerFirstReview[y[1]][y[2]].prCreatedAt = prs[y[2]].createdAt
    /\ \A k \in 1..Len(engineers) :
         LET expected == ExpectedResponseTimes(engineers[k].login)
         IN Len(expected) > 0 =>
              /\ engineers[k].medianReviewResponseHours # Null
              /\ 2 * engineers[k].medianReviewResponseHours.tenths
                   = TwiceMedianByCounting(expected)

\* C25 witness: a reviewer with two counted reviews on one PR, the later
\* one listed first, and one sample at the earlier time.
C25_Witness ==
  /\ Done
  /\ \E l \in InputLogins, p \in 1..Len(prs) :
       /\ \E x, z \in CountedOn(l, p) : x[2] < z[2] /\ SubmittedAt(x) > SubmittedAt(z)
       /\ <<l, p>> \in Samples
       /\ MinSubmittedAt(<<l, p>>) = EarliestOn(l, p)
       /\ \E k \in OutIdx(l) : engineers[k].medianReviewResponseHours # Null

(***************************************************************************)
(* C22                                                                     *)
(***************************************************************************)
\* C22: fetchMergedPRs returns at most 300 records, each with a mergedAt;
\* a request in flight asks for at least one and at most min(50, 300 minus
\* the number collected) items; no request is in flight after a page whose
\* hasNextPage is false or whose endCursor is null.
C22_PagingBounded ==
  /\ fetchPc = "returned" =>
       /\ Len(fetchResult) <= 300
       /\ \A i \in 1..Len(fetchResult) : ~fetchResult[i].mergedAt.isNull
  /\ fetchPc = "await" =>
       /\ lastRequest.first >= 1
       /\ lastRequest.first <= 50
       /\ lastRequest.first <= 300 - Len(fetchedPrs)
       /\ ~stopSeen

\* C22 witness: a call that collected 301 merged nodes, the last page
\* holding one node more than asked and an unmerged one, and returned 300.
C22_Witness ==
  /\ fetchPc = "returned"
  /\ Len(fetchedPrs) = 301
  /\ Len(fetchResult) = 300
  /\ lastRequest.first < 50

(***************************************************************************)
(* C23, C30                                                                *)
(***************************************************************************)
\* the steps in the order of the route
StepOrder == <<"fetch_prs", "quality", "metrics", "insights">>
StepRank(id) == CHOOSE k \in 1..Len(StepOrder) : StepOrder[k] = id

\* positions of the stream that hold the event
PosOf(type, id) == { i \in 1..Len(events) : events[i] = [type |-> type, id |-> id] }
PosOfType(type) == { i \in 1..Len(events) : events[i].type = type }

\* position i comes after some position of S
AfterSome(i, S) == \E j \in S : j < i

\* C23: in the stream, each step_done comes after the step_start of its step;
\* the first step started is fetch_prs and each later step_start comes after
\* the step_done of the step started last before it, which is earlier in the
\* order fetch_prs, quality, metrics, insights; a partial event comes after
\* the metrics step_done and not after the insights step_start; done comes
\* after the step_done of every started step and of fetch_prs, metrics and
\* insights; done and error are followed by nothing.
C23_StreamOrder ==
  /\ \A i \in PosOfType("step_done") :
       AfterSome(i, PosOf("step_start", events[i].id))
  /\ \A i \in PosOfType("step_start") :
       LET earlier == { j \in PosOfType("step_start") : j < i }
       IN IF earlier = {} THEN events[i].id = "fetch_prs"
          ELSE LET last == CHOOSE j \in earlier : \A k \in earlier : k <= j
               IN /\ StepRank(events[last].id) < StepRank(events[i].id)
                  /\ \E d \in PosOf("step_done", events[last].id) : last < d /\ d < i
  /\ \A i \in PosOfType("partial") :
       /\ AfterSome(i, PosOf("step_done", "metrics"))
       /\ ~AfterSome(i, PosOf("step_start", "insights"))
  /\ \A i \in PosOfType("done") :
       /\ \A s \in PosOfType("step_start") : AfterSome(i, PosOf("step_done", events[s].id))
       /\ \A id \in {"fetch_prs", "metrics", "insights"} :
            AfterSome(i, PosOf("step_done", id))
  /\ \A i \in PosOfType("done") \cup PosOfType("error") : i = Len(events)

\* C23 witness: a closed stream of route.ts that carries a partial event and
\* done.
C23_Witness ==
  /\ routePc = "closed"
  /\ PosOfType("partial") # {}
  /\ PosOfType("done") # {}
  /\ Len(events) = 8

\* a stream was started
Started == routePc \notin {"idle", "rejected"}

\* the stream holds exactly one terminal event
OneTerminal == Cardinality(PosOfType("done") \cup PosOfType("error")) = 1

\* C30: a started stream is eventually closed with exactly one terminal
\* event, done or error; a stream never holds more than one terminal event;
\* a stream closed without the fetch_prs step_done holds an error event and
\* no done event.
C30_OneTerminalThenClosed ==
  /\ [](Started => <>(routePc = "closed" /\ OneTerminal))
  /\ [](Cardinality(PosOfType("done") \cup PosOfType("error")) <= 1)
  /\ [](routePc = "closed" => OneTerminal)
  /\ []((routePc = "closed" /\ PosOf("step_done", "fetch_prs") = {}) =>
          (PosOfType("error") # {} /\ PosOfType("done") = {}))

\* C30 witness: a stream closed by the error of the PR fetch.
C30_Witness ==
  /\ routePc = "closed"
  /\ events = <<[type |-> "step_start", id |-> "fetch_prs"], [type |-> "error", id |-> ""]>>

(***************************************************************************)
(* C28, C29                                                                *)
(***************************************************************************)
\* the request of the latest effect run, when that run made one
HasCurrent ==
  /\ hookOptions # [isNull |-> TRUE]
  /\ hookOptions.repo # ""
  /\ requests # <<>>
  /\ requests[Len(requests)].id = effectRuns
Current == requests[Len(requests)]

\* at the start of the request the storage held a response for its
\* (repo, top) that was less than 1 hour old
HadValidCache(r) ==
  /\ ~r.entryAtStart.isNull
  /\ r.startedAt - r.entryAtStart.fetchedAt < 1

C29_AbortedNeverTouchesNew ==
  (/\ HasCurrent
   /\ Current.cached.isNull
   /\ Current.pc # "finished"
   /\ ~Current.delivered)
  => /\ loading
     /\ loadingProgress # [currentStep |-> [isNull |-> TRUE], completedSteps |-> <<>>]

(***************************************************************************)
(* C21, C27                                                                *)
(***************************************************************************)
\* C21: every insight a getInsights call returns from the memory or file
\* cache came from the language model at most 6 hours before the call.
C21_CachedAtMostSixHours ==
  ~timedOut.isNull =>
    \A k \in DOMAIN timedOut.served : (timedOut.at - timedOut.served[k]) * 3 <= 6

\* the keys of the insights cached and unexpired when the last call began
UnexpiredKeys ==
  (IF ~timedOut.memory.isNull /\ (timedOut.at - timedOut.memory.fetchedAt) * 3 < 6
     THEN DOMAIN timedOut.memory.result ELSE {})
  \cup (IF ~timedOut.file.isNull /\ (timedOut.at - timedOut.file.fetchedAt) * 3 <= 6
          THEN DOMAIN timedOut.file.result ELSE {})

\* C27: a call never sends the model an engineer whose login, as given or
\* lower-cased, is the key of an unexpired cached insight; each list sent to
\* the model holds at most 5 engineers; every returned key equals, letter
\* case aside, the login of a requested engineer.
C27_OnlyMissingOnlyRequested ==
  ~timedOut.isNull =>
    /\ \A c \in 1..Len(timedOut.calls) :
         /\ Len(timedOut.calls[c]) <= 5
         /\ \A k \in 1..Len(timedOut.calls[c]) :
              /\ timedOut.calls[c][k] \notin UnexpiredKeys
              /\ toLowerCase(timedOut.calls[c][k]) \notin UnexpiredKeys
    /\ ~timedOut.ret.isNull =>
         \A key \in DOMAIN timedOut.ret.result :
           \E k \in 1..Len(timedOut.top) :
             toLowerCase(timedOut.top[k]) = toLowerCase(key)

\* C27 witness: a request for six engineers that found Bob cached and
\* unexpired, sent the model two lists, and returned all six.
C27_Witness ==
  /\ ~timedOut.isNull
  /\ Len(timedOut.top) = 6
  /\ Bob \in UnexpiredKeys
  /\ Len(timedOut.calls) = 2
  /\ ~timedOut.ret.isNull
  /\ Cardinality(DOMAIN timedOut.ret.result) = 6

(***************************************************************************)
(* C26                                                                     *)
(***************************************************************************)
\* C26: a quality-signal result that a request for repository R gets from
\* the memory or file cache was computed for repository R and for the since
\* date of the request.
C26_CacheKeyedBySinceAndRepo ==
  (~qualityServed.isNull /\ qualityServed.fromCache) =>
    /\ qualityServed.computedFor = qualityServed.repo
    /\ qualityServed.computedSince = qualityServed.since
====
